---------------------------- MODULE Spec2Model ----------------------------
(***************************************************************************)
(* A model of test/performance/scripts/perf_run.py: the retrying remote    *)
(* call (retry_with_backoff), the creation of the organization and its     *)
(* projects (create_org_and_projects), the readiness poller                *)
(* (wait_condition_ready), the metrics collector (measure_metrics,         *)
(* prom_query, http_get_json), the teardown (cleanup_resources and the     *)
(* cleanup mode of main) and a whole run of main with its checkpoints and  *)
(* the worker pools of create_objects_in_projects.                         *)
(*                                                                         *)
(* Each component has its own specification over the shared variables:     *)
(*   SpecCreate   retry_with_backoff inside create_org_and_projects        *)
(*   SpecWait     wait_condition_ready                                     *)
(*   SpecMetrics  measure_metrics                                          *)
(*   SpecCleanup  main in cleanup mode, run twice in succession            *)
(*   SpecRun      main in run mode                                         *)
(*   SpecHttp     http_get_json                                            *)
(*   SpecSave     save_results_configmap                                   *)
(*   SpecStart    get_env and the settings main reads before it acts       *)
(*   SpecTimed    create_org_and_projects against the clock                *)
(*   SpecDerive   build_scoped_kubeconfig under concurrent callers         *)
(*   SpecTree     a run and its cleanup beside the tree of an earlier run   *)
(* The remote services (control plane, metrics backend) are the            *)
(* environment: every answer they can give is a nondeterministic choice.   *)
(***************************************************************************)
EXTENDS Integers, Sequences, FiniteSets, TLC

VARIABLES
    \* ---- create_org_and_projects ----
    num_projects,    \* argument num_projects
    cpPc,            \* position in create_org_and_projects
    i,               \* loop index of the project-creation loop
    project_names,   \* the list project_names
    cpErr,           \* the error create_org_and_projects raised, or NoErr
    \* ---- retry_with_backoff (the invocation in progress) ----
    rPc,             \* "idle" | "call" | "sleep" | "returned" | "raised"
    attempt,         \* loop variable attempt
    delay,           \* local delay
    rCalls,          \* history: calls of fn made by this invocation
    rSleeps,         \* history: the time.sleep arguments of this invocation
    rFnErr,          \* history: the error raised by the last failed call of fn
    rRaised,         \* the error this invocation raised to its caller
    rResult,         \* the value this invocation returned (the attempt that succeeded)
    \* ---- wait_condition_ready ----
    timeout_s,       \* argument timeout_s
    wPc,             \* "idle" | "loop" | "sleep" | "returned" | "timeout" | "raised"
    wNow,            \* the clock time.time() reads
    wStart,          \* local start
    wDeadline,       \* local deadline
    wLastLog,        \* local last_log
    wCond,           \* local cond of the last poll
    wFetches,        \* history: fetches issued
    wSawReady,       \* history: a fetched object held a Ready condition with status True
    wFetchFailed,    \* history: a fetch raised
    wErr,            \* the error wait_condition_ready raised, or NoErr
    \* ---- measure_metrics ----
    mPc,             \* "idle" | "preflight" | "variant" | "collect" | "returned" | "raised"
    mVariant,        \* index of the (pod_label, with_filter) pair of the for loop
    qSt,             \* per metric: its prom_query future: "idle" | "running" | "done" | "collected"
    qAttempt,        \* per metric: loop variable attempt of http_get_json
    qSleeps,         \* per metric: the time.sleep arguments of the http_get_json in progress
    qOutcome,        \* per metric: what its future holds (a value or an exception)
    results,         \* the dict results of run_queries
    mTried,          \* history: the pairs tried so far, each with its results
    snapshot,        \* the dict measure_metrics returned
    mErr,            \* the exception that left measure_metrics, or NoOutcome
    \* ---- the control plane, as the teardown sees it ----
    srvProjects,     \* per labelled Project: "present" | "terminating" | "gone"
    srvSecrets,      \* per Project: the labelled Secrets left in its control plane
    srvConfigMaps,   \* per Project: the labelled ConfigMaps left in its control plane
    srvOrg,          \* the Organization: "present" | "terminating" | "gone"
    srvCheckpoint,   \* the ConfigMap perf-results: "present" | "terminating" | "gone"
    \* ---- main in cleanup mode: cleanup_resources, then the checkpoint delete ----
    clPass,          \* 1 for the first cleanup run, 2 for the run after it
    clPc,            \* position in cleanup_resources / main
    clItems,         \* proj_list["items"]
    clIdx,           \* index of the project of the for loop
    clObjs,          \* sl.items or cml.items of the current project
    clObjIdx,        \* index in clObjs
    clListed,        \* history: the objects listed in the current project
    clAttempted,     \* history: the objects of the current project whose delete was issued
    clObjFailed,     \* history: an object delete of the current project answered a status other than 404
    clErr,           \* the error that ended the cleanup run, or NoErr
    clErrAt,         \* the call that raised clErr
    srvFaults,       \* history: the calls of the teardown answered with a fault so far
    clIssued,        \* history: the Project, Organization and record deletes this run issued
    \* ---- main in run mode ----
    pc,                   \* position in main
    test_id,              \* local test_id
    org_name,             \* local org_name
    nProjects,            \* local num_projects of main
    num_secrets,          \* local num_secrets
    num_configmaps,       \* local num_configmaps
    project_concurrency,  \* local project_concurrency
    object_concurrency,   \* local object_concurrency
    run_objects_phase,    \* local run_objects_phase
    record,               \* the ConfigMap perf-results of the target namespace
    idx,                  \* loop variable i of the project loop of create_org_and_projects
    names,                \* the list project_names
    tries,                \* loop variable attempt of the retry_with_backoff in progress
    ready,                \* local ready of create_org_and_projects
    polls,                \* the polls of the wait_condition_ready in progress that were not Ready
    measuring,            \* measure_metrics is running
    snapshots,            \* the measurements taken: "baseline", "after_projects", "after_secrets"
    projSt,               \* per project: its work_project task
    objSt,                \* per kind and project: the create tasks of its pool
    runFaults,            \* history: the remote calls of the run answered with an error
    ckWrites,             \* history: the phase of each write to the record, in order
    orgCalls,             \* history: create calls issued for the Organization
    projCalls,            \* history: create calls issued for Projects
    observed,             \* history: the projects a fetch showed Ready with status True
    fatalAt,              \* history: the first call that ended with an error other than 409
    persistFailed,        \* history: the first write to the record that failed
    transientAt,          \* history: the calls answered with a transient error
    conflictAt,           \* history: the projects whose first create attempt answered 409
    \* ---- http_get_json (one invocation) ----
    hPc,             \* "call" | "exhausted" | "returned" | "raised"
    hAttempt,        \* loop variable attempt
    last_err,        \* local last_err
    hResult,         \* the value http_get_json returned
    hRaised,         \* the error http_get_json raised
    hCalls,          \* history: requests.get calls made
    hSleeps,         \* history: the arguments of time.sleep, in order
    hErrs,           \* history: the error of each failed attempt, in order
    \* ---- save_results_configmap (one invocation, no other writer) ----
    sPc,             \* "config" | "read" | "replace" | "create" | "returned" | "raised"
    sStore,          \* the ConfigMap of that name in the namespace
    sData,           \* argument data
    sErr,            \* the error save_results_configmap raised
    sBefore,         \* history: the ConfigMap when the call started
    sAnswers,        \* history: the error answers of the API calls, in order
    \* ---- the start of main ----
    environ,         \* os.environ: per variable, whether it is set and its text
    stPc,            \* "mode" | "settings" | "first_call" | "running" | "exited"
    stMode,          \* the branch of main: "cleanup" or "run"
    stIdx,           \* the next setting main reads
    stExit,          \* the exit status of the process, -1 while it runs
    stStderr,        \* what the process wrote to stderr: the variable reported missing
    stRemote,        \* history: the remote calls attempted
    \* ---- create_org_and_projects from "Create Projects" on, with the clock ----
    tPc,             \* "create" | "wait" | "poll" | "finish" | "returned" | "raised"
    tClock,          \* time.time()
    tN,              \* argument num_projects
    tI,              \* the project being created, then the project being waited for
    tTries,          \* loop variable attempt of retry_with_backoff
    tDelay,          \* local delay of retry_with_backoff
    tStart,          \* local start of create_org_and_projects
    tWStart,         \* local start of wait_condition_ready
    tDeadline,       \* local deadline of wait_condition_ready
    tTotal,          \* the total_seconds returned, -1 before
    tErr,            \* the error raised
    tRetries,        \* history: the create calls answered with a retryable error
    tLoopStart,      \* history: the clock when the readiness loop started
    tReadyAt,        \* history: the clock when the last project was seen Ready
    tFetchAt,        \* history: the clock when the last fetch was issued
    tPolled,         \* history: the projects fetched
    tObserved,       \* history: the projects seen Ready
    tObjects,        \* history: main has gone on to the stages after create_org_and_projects
    \* ---- build_scoped_kubeconfig called by the project workers ----
    dHeap,           \* the objects of the interpreter: address -> dict
    dBase,           \* the address of base_cfg
    dPc,             \* per worker: "start" | "clusters" | "contexts" | "current" | "returned"
    dCfg,            \* per worker: the address of its local cfg
    dJ,              \* per worker: the position of its for loop
    dBefore,         \* history: the value of base_cfg before the first call
    dReturned,       \* history: per worker, the value of the dict it returned
    dChanged,        \* history: the workers whose returned dict was changed afterwards
    \* ---- a run and the cleanup of its tree on a control plane with older resources ----
    trPc,            \* position in main (run mode, then cleanup mode)
    trId,            \* test_id of the run, TEST_ID of the cleanup
    trOrg,           \* org_name of the run, ORG_NAME of the cleanup
    trN,             \* num_projects
    trS,             \* num_secrets and num_configmaps
    trIdx,           \* position of the loop over the projects
    trKind,          \* the pool of work_project / the list of cleanup_resources in turn
    trNames,         \* project_names
    trOrgs,          \* control plane: the names of the organizations
    trProjects,      \* control plane: the projects, with their labels
    trObjects,       \* control plane: the Secrets and ConfigMaps, with their labels
    trItems,         \* proj_list["items"]
    trFaults,        \* the calls answered with an error so far
    trFailedAt,      \* the call whose error ended the run or the cleanup
    trConflict,      \* history: the projects whose create answered 409
    trWaited,        \* history: the projects the run waited Ready for
    trBefore,        \* history: the projects on the control plane when cleanup began
    trListed,        \* history: the objects the lists of cleanup_resources returned
    trDeletes        \* history: the deletes issued, with the labels of their target

createVars == <<num_projects, cpPc, i, project_names, cpErr>>
retryVars  == <<rPc, attempt, delay, rCalls, rSleeps, rFnErr, rRaised, rResult>>
waitVars   == <<timeout_s, wPc, wNow, wStart, wDeadline, wLastLog, wCond, wFetches,
                wSawReady, wFetchFailed, wErr>>
metricVars == <<mPc, mVariant, qSt, qAttempt, qSleeps, qOutcome, results, mTried, snapshot, mErr>>
serverVars == <<srvProjects, srvSecrets, srvConfigMaps, srvOrg, srvCheckpoint>>
cleanVars  == <<clPass, clPc, clItems, clIdx, clObjs, clObjIdx, clListed, clAttempted, clObjFailed,
                clErr, clErrAt, srvFaults, clIssued>>
runVars    == <<pc, test_id, org_name, nProjects, num_secrets, num_configmaps, project_concurrency,
                object_concurrency, run_objects_phase, record, idx, names, tries, ready, polls,
                measuring, snapshots, projSt, objSt, runFaults, ckWrites, orgCalls, projCalls,
                observed, fatalAt, persistFailed, transientAt, conflictAt>>
httpVars   == <<hPc, hAttempt, last_err, hResult, hRaised, hCalls, hSleeps, hErrs>>
\* the variables of the functions that are modelled on their own
saveVars   == <<sPc, sStore, sData, sErr, sBefore, sAnswers>>
startVars  == <<environ, stPc, stMode, stIdx, stExit, stStderr, stRemote>>
timedVars  == <<tPc, tClock, tN, tI, tTries, tDelay, tStart, tWStart, tDeadline, tTotal, tErr,
                tRetries, tLoopStart, tReadyAt, tFetchAt, tPolled, tObserved, tObjects>>
deriveVars == <<dHeap, dBase, dPc, dCfg, dJ, dBefore, dReturned, dChanged>>
treeVars   == <<trPc, trId, trOrg, trN, trS, trIdx, trKind, trNames, trOrgs, trProjects, trObjects,
                trItems, trFaults, trFailedAt, trConflict, trWaited, trBefore, trListed, trDeletes>>
unitVars   == <<httpVars, saveVars, startVars, timedVars, deriveVars, treeVars>>
\* the variables of the components of a run and of the teardown
mainVars   == <<createVars, retryVars, waitVars, metricVars, serverVars, cleanVars, runVars>>
vars       == <<createVars, retryVars, waitVars, metricVars, serverVars, cleanVars, runVars, unitVars>>

----------------------------------------------------------------------------
(* Bounds of the model *)

MaxProjects == 2
MaxTimeout  == 12    \* the largest timeout_s tried
MaxLatency  == 1     \* the longest a status fetch takes, in seconds
Epoch       == 100   \* the clock when a wait starts (time.time() is far from 0)
MaxValue    == 1     \* the largest value a metric query answers
MaxSecrets  == 2     \* the most Secrets a project holds
MaxConfigMaps == 1   \* the most ConfigMaps a project holds
MaxFaults   == 1     \* the most calls of a teardown that fail with a fault

(* Program constants *)

RetryAttempts == 6     \* range(1, 7)
InitialDelay  == 1     \* delay = 1.0
MaxDelay      == 16    \* min(delay * 2, 16)
PollInterval  == 2     \* time.sleep(2)
ProjectTimeout == 900  \* wait_condition_ready(..., timeout_s=900, log_context="Project")
LogGrace      == 10    \* now - start >= 10
LogEvery      == 15    \* now - last_log >= 15
HttpAttempts  == 6     \* for attempt in range(6)
HttpBackoff   == 2     \* sleep_s = 2 * (attempt + 1)

Min(a, b) == IF a < b THEN a ELSE b

----------------------------------------------------------------------------
(* Errors.  An ApiException carries an HTTP status and a body; the body is *)
(* either None or a text, modelled by the set of fragments it contains.    *)
(* Any other exception kind (a connection cut below the API layer) is      *)
(* "other".  att is the attempt whose call raised the error: it tells two  *)
(* error objects with the same status and body apart.                      *)

Fragments == {"already exists", "Internal error occurred", "failed calling webhook", "EOF"}

NoneBody == [none |-> TRUE, frags |-> {}]

TextBody(fs) == [none |-> FALSE, frags |-> fs]

Bodies ==
    {NoneBody, TextBody({})}
        \cup {TextBody({f}) : f \in Fragments}
        \cup {TextBody({"already exists", "EOF"})}

Statuses == {403, 409, 429, 500}

NoErr == [kind |-> "none", status |-> 0, body |-> NoneBody, att |-> 0]

ApiException(s, b, a) == [kind |-> "api", status |-> s, body |-> b, att |-> a]

OtherException(a) == [kind |-> "other", status |-> 0, body |-> NoneBody, att |-> a]

\* a condition of a resource's status; NoCond is Python's None
NoCond == [type |-> "none", status |-> "none"]

Condition(t, st) == [type |-> t, status |-> st]

\* the errors a create call can raise at attempt a
CreateErrors(a) ==
    {ApiException(s, b, a) : s \in Statuses, b \in Bodies} \cup {OtherException(a)}

----------------------------------------------------------------------------
(* should_retry_api_exception *)

\* msg = str(getattr(e, 'body', '') or ''): a None body reads as the empty text
MsgOf(e) == IF e.body.none THEN {} ELSE e.body.frags

AlwaysRetry(e) == TRUE

should_retry_api_exception(e) ==
    \/ e.status \in {429, 500}
    \/ "Internal error occurred" \in MsgOf(e)
    \/ "failed calling webhook" \in MsgOf(e)
    \/ "EOF" \in MsgOf(e)

----------------------------------------------------------------------------
(* retry_with_backoff *)

LinearDelay(d) == d + 1

\* delay = min(delay * 2, 16)
NextDelay(d) == Min(d * 2, MaxDelay)

RetriedWhateverKind(e, a) == a < RetryAttempts

\* retry_with_backoff goes round again: except ApiException as e, with
\* should_retry_api_exception(e) and attempt < 6
Retried(e, a) == e.kind = "api" /\ should_retry_api_exception(e) /\ a < RetryAttempts

\* a fresh invocation: delay = 1.0, attempt = 1
RetryStart ==
    /\ rPc' = "call"
    /\ attempt' = 1
    /\ delay' = InitialDelay
    /\ rCalls' = 0
    /\ rSleeps' = <<>>
    /\ rFnErr' = NoErr
    /\ rRaised' = NoErr
    /\ rResult' = 0

\* return fn(*args, **kwargs): the call succeeds
RetryCallOk ==
    /\ rPc = "call"
    /\ rCalls' = rCalls + 1
    /\ rResult' = attempt
    /\ rPc' = "returned"
    /\ UNCHANGED <<attempt, delay, rSleeps, rFnErr, rRaised>>
    /\ UNCHANGED createVars
    /\ UNCHANGED <<waitVars, metricVars, serverVars, cleanVars, runVars, unitVars>>

\* the call raises e: an ApiException classified retryable with attempts left is
\* logged and retried after a sleep, anything else is raised as it is
RetryCallFail ==
    /\ rPc = "call"
    /\ \E e \in CreateErrors(attempt) :
         /\ rCalls' = rCalls + 1
         /\ rFnErr' = e
         /\ IF Retried(e, attempt)
               THEN rPc' = "sleep" /\ rRaised' = rRaised
               ELSE rPc' = "raised" /\ rRaised' = e
    /\ UNCHANGED <<attempt, delay, rSleeps, rResult>>
    /\ UNCHANGED createVars
    /\ UNCHANGED <<waitVars, metricVars, serverVars, cleanVars, runVars, unitVars>>

\* time.sleep(delay); delay = min(delay * 2, 16); continue
RetrySleep ==
    /\ rPc = "sleep"
    /\ rSleeps' = Append(rSleeps, delay)
    /\ delay' = NextDelay(delay)
    /\ attempt' = attempt + 1
    /\ rPc' = "call"
    /\ UNCHANGED <<rCalls, rFnErr, rRaised, rResult>>
    /\ UNCHANGED createVars
    /\ UNCHANGED <<waitVars, metricVars, serverVars, cleanVars, runVars, unitVars>>

----------------------------------------------------------------------------
(* create_org_and_projects: the organization create and the project loop *)

\* f"{i:03d}": at least three digits, zero padded
RECURSIVE Digits(_)
Digits(n) == IF n < 10 THEN <<n>> ELSE Append(Digits(n \div 10), n % 10)

Pad3(n) ==
    LET d == Digits(n)
    IN  IF Len(d) >= 3 THEN d ELSE [k \in 1..(3 - Len(d)) |-> 0] \o d

\* pname = f"{org_name}-p-{i:03d}"
ProjectName(n) == <<"org", "-p-">> \o Pad3(n)

ToleratesNothing(e) == FALSE

ToleratesAll(e) == TRUE

\* except ApiException as e: if e.status != 409: raise
Tolerated409(e) == e.kind = "api" /\ e.status = 409

\* the create of the Organization ended: a return or a 409 goes on to the projects
OrgCreated ==
    /\ cpPc = "create_org"
    /\ \/ rPc = "returned"
       \/ rPc = "raised" /\ Tolerated409(rRaised)
    /\ cpPc' = "project_loop"
    /\ i' = 1
    /\ project_names' = <<>>
    /\ rPc' = "idle"
    /\ UNCHANGED <<num_projects, cpErr>>
    /\ UNCHANGED <<attempt, delay, rCalls, rSleeps, rFnErr, rRaised, rResult>>
    /\ UNCHANGED <<waitVars, metricVars, serverVars, cleanVars, runVars, unitVars>>

\* any other error of the Organization create leaves create_org_and_projects
OrgCreateFailed ==
    /\ cpPc = "create_org"
    /\ rPc = "raised" /\ ~Tolerated409(rRaised)
    /\ cpPc' = "raised"
    /\ cpErr' = rRaised
    /\ UNCHANGED <<num_projects, i, project_names>>
    /\ UNCHANGED retryVars
    /\ UNCHANGED <<waitVars, metricVars, serverVars, cleanVars, runVars, unitVars>>

\* for i in range(1, num_projects + 1): project_names.append(pname); retry_with_backoff(...)
ProjectLoop ==
    /\ cpPc = "project_loop"
    /\ i <= num_projects
    /\ project_names' = Append(project_names, ProjectName(i))
    /\ cpPc' = "create_project"
    /\ RetryStart
    /\ UNCHANGED <<num_projects, i, cpErr>>
    /\ UNCHANGED <<waitVars, metricVars, serverVars, cleanVars, runVars, unitVars>>

\* the loop is over: the readiness waits follow
ProjectLoopEnd ==
    /\ cpPc = "project_loop"
    /\ i > num_projects
    /\ cpPc' = "wait_ready"
    /\ UNCHANGED <<num_projects, i, project_names, cpErr>>
    /\ UNCHANGED retryVars
    /\ UNCHANGED <<waitVars, metricVars, serverVars, cleanVars, runVars, unitVars>>

\* the create of Project i ended: a return or a 409 goes on with the next project
ProjectCreated ==
    /\ cpPc = "create_project"
    /\ \/ rPc = "returned"
       \/ rPc = "raised" /\ Tolerated409(rRaised)
    /\ cpPc' = "project_loop"
    /\ i' = i + 1
    /\ rPc' = "idle"
    /\ UNCHANGED <<num_projects, project_names, cpErr>>
    /\ UNCHANGED <<attempt, delay, rCalls, rSleeps, rFnErr, rRaised, rResult>>
    /\ UNCHANGED <<waitVars, metricVars, serverVars, cleanVars, runVars, unitVars>>

\* any other error of a Project create is logged and leaves create_org_and_projects
ProjectCreateFailed ==
    /\ cpPc = "create_project"
    /\ rPc = "raised" /\ ~Tolerated409(rRaised)
    /\ cpPc' = "raised"
    /\ cpErr' = rRaised
    /\ UNCHANGED <<num_projects, i, project_names>>
    /\ UNCHANGED retryVars
    /\ UNCHANGED <<waitVars, metricVars, serverVars, cleanVars, runVars, unitVars>>

----------------------------------------------------------------------------
(* Values of the metrics collector *)

MetricKeys == {"apiserver_cpu_cores", "apiserver_mem_bytes", "etcd_cpu_cores", "etcd_mem_bytes"}

\* what a prom_query future holds: a float, or the exception that ended the query
NoOutcome == [kind |-> "none", v |-> 0, cause |-> "none"]

Value(n) == [kind |-> "value", v |-> n, cause |-> "none"]

\* cause "transport": http_get_json gave up; cause "status": prom_query's RuntimeError
Failure(c) == [kind |-> "error", v |-> 0, cause |-> c]

EmptyDict == [k \in {} |-> 0]

Zeros == [k \in MetricKeys |-> 0]

----------------------------------------------------------------------------
\* the variables of a component that is not running
CreateIdle ==
    /\ num_projects = 0
    /\ cpPc = "idle"
    /\ i = 0
    /\ project_names = <<>>
    /\ cpErr = NoErr

RetryIdle ==
    /\ rPc = "idle"
    /\ attempt = 1
    /\ delay = InitialDelay
    /\ rCalls = 0
    /\ rSleeps = <<>>
    /\ rFnErr = NoErr
    /\ rRaised = NoErr
    /\ rResult = 0

WaitIdle ==
    /\ timeout_s = 0
    /\ wPc = "idle"
    /\ wNow = 0
    /\ wStart = 0
    /\ wDeadline = 0
    /\ wLastLog = 0
    /\ wCond = NoCond
    /\ wFetches = 0
    /\ wSawReady = FALSE
    /\ wFetchFailed = FALSE
    /\ wErr = NoErr

MetricsIdle ==
    /\ mPc = "idle"
    /\ mVariant = 0
    /\ qSt = [k \in MetricKeys |-> "idle"]
    /\ qAttempt = [k \in MetricKeys |-> 0]
    /\ qSleeps = [k \in MetricKeys |-> <<>>]
    /\ qOutcome = [k \in MetricKeys |-> NoOutcome]
    /\ results = EmptyDict
    /\ mTried = <<>>
    /\ snapshot = EmptyDict
    /\ mErr = NoOutcome

CleanupIdle ==
    /\ srvProjects = <<>>
    /\ srvSecrets = <<>>
    /\ srvConfigMaps = <<>>
    /\ srvOrg = "gone"
    /\ srvCheckpoint = "gone"
    /\ clPass = 0
    /\ clPc = "idle"
    /\ clItems = <<>>
    /\ clIdx = 0
    /\ clObjs = <<>>
    /\ clObjIdx = 0
    /\ clListed = {}
    /\ clAttempted = {}
    /\ clObjFailed = FALSE
    /\ clErr = NoErr
    /\ clErrAt = "none"
    /\ srvFaults = 0
    /\ clIssued = <<>>

\* the ConfigMap perf-results: its data holds test_id, org_name and either a
\* phase (a checkpoint) or the results (results.json, report.html)
NoRecord == [exists |-> FALSE, test_id |-> "none", org_name |-> "none", phase |-> "none",
             results |-> FALSE]

HttpIdle ==
    /\ hPc = "idle"
    /\ hAttempt = 0
    /\ last_err = NoErr
    /\ hResult = "none"
    /\ hRaised = NoErr
    /\ hCalls = 0
    /\ hSleeps = <<>>
    /\ hErrs = <<>>

\* no ConfigMap of that name
Absent == [exists |-> FALSE, data |-> {}, uid |-> "none"]

SaveIdle ==
    /\ sPc = "idle"
    /\ sStore = Absent
    /\ sData = {}
    /\ sErr = NoErr
    /\ sBefore = Absent
    /\ sAnswers = <<>>

StartIdle ==
    /\ environ = <<>>
    /\ stPc = "idle"
    /\ stMode = "none"
    /\ stIdx = 0
    /\ stExit = -1
    /\ stStderr = "none"
    /\ stRemote = <<>>

TimedIdle ==
    /\ tPc = "idle"
    /\ tClock = 0
    /\ tN = 0
    /\ tI = 0
    /\ tTries = 1
    /\ tDelay = 0
    /\ tStart = 0
    /\ tWStart = 0
    /\ tDeadline = 0
    /\ tTotal = -1
    /\ tErr = "none"
    /\ tRetries = 0
    /\ tLoopStart = -1
    /\ tReadyAt = -1
    /\ tFetchAt = -1
    /\ tPolled = {}
    /\ tObserved = {}
    /\ tObjects = FALSE

DeriveIdle ==
    /\ dHeap = <<>>
    /\ dBase = 0
    /\ dPc = <<>>
    /\ dCfg = <<>>
    /\ dJ = <<>>
    /\ dBefore = <<>>
    /\ dReturned = <<>>
    /\ dChanged = {}

TreeIdle ==
    /\ trPc = "idle"
    /\ trId = ""
    /\ trOrg = <<>>
    /\ trN = 0
    /\ trS = 0
    /\ trIdx = 0
    /\ trKind = ""
    /\ trNames = <<>>
    /\ trOrgs = {}
    /\ trProjects = {}
    /\ trObjects = {}
    /\ trItems = <<>>
    /\ trFaults = 0
    /\ trFailedAt = "none"
    /\ trConflict = {}
    /\ trWaited = {}
    /\ trBefore = {}
    /\ trListed = {}
    /\ trDeletes = <<>>

UnitIdle == HttpIdle /\ SaveIdle /\ StartIdle /\ TimedIdle /\ DeriveIdle /\ TreeIdle

RunIdle ==
    /\ pc = "idle"
    /\ test_id = "none"
    /\ org_name = "none"
    /\ nProjects = 0
    /\ num_secrets = 0
    /\ num_configmaps = 0
    /\ project_concurrency = 1
    /\ object_concurrency = 1
    /\ run_objects_phase = FALSE
    /\ record = NoRecord
    /\ idx = 0
    /\ names = <<>>
    /\ tries = 1
    /\ ready = 0
    /\ polls = 0
    /\ measuring = FALSE
    /\ snapshots = {}
    /\ projSt = <<>>
    /\ objSt = <<>>
    /\ runFaults = 0
    /\ ckWrites = <<>>
    /\ orgCalls = 0
    /\ projCalls = 0
    /\ observed = {}
    /\ fatalAt = "none"
    /\ persistFailed = "none"
    /\ transientAt = {}
    /\ conflictAt = {}

MainIdle == CreateIdle /\ RetryIdle /\ WaitIdle /\ MetricsIdle /\ CleanupIdle /\ RunIdle

InitCreate ==
    /\ num_projects \in 0..MaxProjects
    /\ cpPc = "create_org"
    /\ i = 0
    /\ project_names = <<>>
    /\ cpErr = NoErr
    /\ rPc = "call"
    /\ attempt = 1
    /\ delay = InitialDelay
    /\ rCalls = 0
    /\ rSleeps = <<>>
    /\ rFnErr = NoErr
    /\ rRaised = NoErr
    /\ rResult = 0
    /\ WaitIdle
    /\ MetricsIdle
    /\ CleanupIdle
    /\ RunIdle
    /\ UnitIdle

NextCreate ==
    \/ RetryCallOk
    \/ RetryCallFail
    \/ RetrySleep
    \/ OrgCreated
    \/ OrgCreateFailed
    \/ ProjectLoop
    \/ ProjectLoopEnd
    \/ ProjectCreated
    \/ ProjectCreateFailed

SpecCreate == InitCreate /\ [][NextCreate]_vars

----------------------------------------------------------------------------
(* wait_condition_ready and find_condition *)

CondStatuses == {"True", "False", "Unknown"}

\* status.conditions of a fetched object: absent (None), or a list that holds at
\* most one condition of each type, as the API server keeps it (a list map keyed
\* by type)
ConditionLists ==
    {<<>>}
        \cup {<<Condition(t, st)>> : t \in {"Ready", "Other"}, st \in CondStatuses}
        \cup {<<Condition("Ready", a), Condition("Other", b)>> : a, b \in CondStatuses}
        \cup {<<Condition("Other", b), Condition("Ready", a)>> : a, b \in CondStatuses}

\* the answers of get_cluster_custom_object: an object, or an error
FetchedObjects ==
    {[conditions |-> cs, absent |-> FALSE] : cs \in ConditionLists}
        \cup {[conditions |-> <<>>, absent |-> TRUE]}

FetchErrors(n) == {ApiException(404, NoneBody, n), ApiException(500, NoneBody, n), OtherException(n)}

\* find_condition(conditions, ctype): the first condition of that type, or None
RECURSIVE FindFrom(_, _, _)
FindFrom(conditions, ctype, k) ==
    IF k > Len(conditions) THEN NoCond
    ELSE IF conditions[k].type = ctype THEN conditions[k]
    ELSE FindFrom(conditions, ctype, k + 1)

find_condition(obj, ctype) ==
    IF obj.absent \/ obj.conditions = <<>> THEN NoCond ELSE FindFrom(obj.conditions, ctype, 1)

IsPresent(cond) == cond # NoCond

\* if cond and str(cond.get("status")) == "True"
IsReady(cond) == cond # NoCond /\ cond.status = "True"

\* the periodic detail log: if now - start >= 10 and now - last_log >= 15: last_log = now
LastLogAfter(now, start, last_log) ==
    IF now - start >= LogGrace /\ now - last_log >= LogEvery THEN now ELSE last_log

\* start = time.time(); deadline = start + timeout_s; last_log = 0.0
InitWait ==
    /\ timeout_s \in 0..MaxTimeout
    /\ wPc = "loop"
    /\ wNow = Epoch
    /\ wStart = Epoch
    /\ wDeadline = Epoch + timeout_s
    /\ wLastLog = 0
    /\ wCond = NoCond
    /\ wFetches = 0
    /\ wSawReady = FALSE
    /\ wFetchFailed = FALSE
    /\ wErr = NoErr
    /\ CreateIdle
    /\ RetryIdle
    /\ MetricsIdle
    /\ CleanupIdle
    /\ RunIdle
    /\ UnitIdle

\* while time.time() < deadline: the fetch answers with an object after d seconds;
\* Ready with status True returns, anything else logs (at most) and goes to sleep
WaitPoll ==
    /\ wPc = "loop"
    /\ wNow < wDeadline
    /\ \E d \in 0..MaxLatency, obj \in FetchedObjects :
         LET cond == find_condition(obj, "Ready")
             now  == wNow + d
         IN  /\ wNow' = now
             /\ wCond' = cond
             /\ wFetches' = wFetches + 1
             /\ wSawReady' =
                    (wSawReady \/ (~obj.absent /\ \E k \in 1..Len(obj.conditions) :
                                      obj.conditions[k] = Condition("Ready", "True")))
             /\ IF IsReady(cond)
                   THEN wPc' = "returned" /\ wLastLog' = wLastLog
                   ELSE wPc' = "sleep" /\ wLastLog' = LastLogAfter(now, wStart, wLastLog)
    /\ UNCHANGED <<timeout_s, wStart, wDeadline, wFetchFailed, wErr>>
    /\ UNCHANGED <<createVars, retryVars, metricVars, serverVars, cleanVars, runVars, unitVars>>

\* the fetch raises: nothing in wait_condition_ready catches it
WaitFetchError ==
    /\ wPc = "loop"
    /\ wNow < wDeadline
    /\ \E d \in 0..MaxLatency, e \in FetchErrors(wFetches + 1) :
         /\ wNow' = wNow + d
         /\ wErr' = e
    /\ wFetches' = wFetches + 1
    /\ wFetchFailed' = TRUE
    /\ wPc' = "raised"
    /\ UNCHANGED <<timeout_s, wStart, wDeadline, wLastLog, wCond, wSawReady>>
    /\ UNCHANGED <<createVars, retryVars, metricVars, serverVars, cleanVars, runVars, unitVars>>

\* time.sleep(2)
WaitSleep ==
    /\ wPc = "sleep"
    /\ wNow' = wNow + PollInterval
    /\ wPc' = "loop"
    /\ UNCHANGED <<timeout_s, wStart, wDeadline, wLastLog, wCond, wFetches, wSawReady,
                   wFetchFailed, wErr>>
    /\ UNCHANGED <<createVars, retryVars, metricVars, serverVars, cleanVars, runVars, unitVars>>

\* the loop condition fails: raise TimeoutError
WaitTimeout ==
    /\ wPc = "loop"
    /\ wNow >= wDeadline
    /\ wPc' = "timeout"
    /\ UNCHANGED <<timeout_s, wNow, wStart, wDeadline, wLastLog, wCond, wFetches, wSawReady,
                   wFetchFailed, wErr>>
    /\ UNCHANGED <<createVars, retryVars, metricVars, serverVars, cleanVars, runVars, unitVars>>

NextWait ==
    \/ WaitPoll
    \/ WaitFetchError
    \/ WaitSleep
    \/ WaitTimeout

SpecWait == InitWait /\ [][NextWait]_vars

----------------------------------------------------------------------------
(* measure_metrics, run_queries, prom_query and http_get_json *)

\* for pod_label, with_filter in [("pod", True), ("pod", False), ("pod_name", True), ("pod_name", False)]
Variants ==
    << [pod_label |-> "pod", with_filter |-> TRUE],
       [pod_label |-> "pod", with_filter |-> FALSE],
       [pod_label |-> "pod_name", with_filter |-> TRUE],
       [pod_label |-> "pod_name", with_filter |-> FALSE] >>

AllNonZero(r) == \A k \in DOMAIN r : r[k] # 0

\* any(v != 0.0 for v in results.values())
AnyNonZero(r) == \E k \in DOMAIN r : r[k] # 0

CaughtUnlessTransport(o) == o.kind = "error" /\ o.cause = "status"

\* except Exception as e: every exception a query can end with is an Exception
Caught(o) == o.kind = "error" /\ o.cause \in {"transport", "status"}

StoreUnlessFailed(r, k, o) == IF o.kind = "value" THEN r @@ (k :> o.v) ELSE r

\* results[k] = future.result(), or results[k] = 0.0 in the except branch
Store(r, k, o) == r @@ (k :> (IF o.kind = "value" THEN o.v ELSE 0))

InitMetrics ==
    /\ mPc = "preflight"
    /\ mVariant = 0
    /\ qSt = [k \in MetricKeys |-> "idle"]
    /\ qAttempt = [k \in MetricKeys |-> 0]
    /\ qSleeps = [k \in MetricKeys |-> <<>>]
    /\ qOutcome = [k \in MetricKeys |-> NoOutcome]
    /\ results = EmptyDict
    /\ mTried = <<>>
    /\ snapshot = EmptyDict
    /\ mErr = NoOutcome
    /\ CreateIdle
    /\ RetryIdle
    /\ WaitIdle
    /\ CleanupIdle
    /\ RunIdle
    /\ UnitIdle

\* the pre-flight series counts: four queries in one try whose except logs and
\* goes on, so both outcomes lead to the first variant
MeasurePreflight ==
    /\ mPc = "preflight"
    /\ \E failed \in BOOLEAN :
         /\ mPc' = "variant"
         /\ mVariant' = 1
    /\ UNCHANGED <<qSt, qAttempt, qSleeps, qOutcome, results, mTried, snapshot, mErr>>
    /\ UNCHANGED <<createVars, retryVars, waitVars, serverVars, cleanVars, runVars, unitVars>>

\* run_queries(pod_label, with_filter): results = {}; the four queries are
\* submitted to a pool of four workers
RunQueriesStart ==
    /\ mPc = "variant"
    /\ qSt' = [k \in MetricKeys |-> "running"]
    /\ qAttempt' = [k \in MetricKeys |-> 0]
    /\ qSleeps' = [k \in MetricKeys |-> <<>>]
    /\ qOutcome' = [k \in MetricKeys |-> NoOutcome]
    /\ results' = EmptyDict
    /\ mPc' = "collect"
    /\ UNCHANGED <<mVariant, mTried, snapshot, mErr>>
    /\ UNCHANGED <<createVars, retryVars, waitVars, serverVars, cleanVars, runVars, unitVars>>

\* http_get_json: requests.get fails; sleep 2 * (attempt + 1); after the sixth
\* failure (and its sleep) raise last_err, which ends prom_query and the future
\* (the locals of a query that ended are gone)
QueryAttemptFail(k) ==
    /\ qSt[k] = "running"
    /\ qAttempt[k] < HttpAttempts
    /\ IF qAttempt[k] + 1 = HttpAttempts
          THEN /\ qSt' = [qSt EXCEPT ![k] = "done"]
               /\ qOutcome' = [qOutcome EXCEPT ![k] = Failure("transport")]
               /\ qAttempt' = [qAttempt EXCEPT ![k] = 0]
               /\ qSleeps' = [qSleeps EXCEPT ![k] = <<>>]
          ELSE /\ qSleeps' = [qSleeps EXCEPT ![k] = Append(@, HttpBackoff * (qAttempt[k] + 1))]
               /\ qAttempt' = [qAttempt EXCEPT ![k] = @ + 1]
               /\ UNCHANGED <<qSt, qOutcome>>
    /\ UNCHANGED <<mPc, mVariant, results, mTried, snapshot, mErr>>
    /\ UNCHANGED <<createVars, retryVars, waitVars, serverVars, cleanVars, runVars, unitVars>>

\* http_get_json returns the response; prom_query raises RuntimeError when its
\* status is not "success", returns 0.0 for an empty result and the first value
\* otherwise
QueryAttemptOk(k) ==
    /\ qSt[k] = "running"
    /\ qAttempt[k] < HttpAttempts
    /\ \E o \in {Value(n) : n \in 0..MaxValue} \cup {Failure("status")} :
         qOutcome' = [qOutcome EXCEPT ![k] = o]
    /\ qSt' = [qSt EXCEPT ![k] = "done"]
    /\ qAttempt' = [qAttempt EXCEPT ![k] = 0]
    /\ qSleeps' = [qSleeps EXCEPT ![k] = <<>>]
    /\ UNCHANGED <<mPc, mVariant, results, mTried, snapshot, mErr>>
    /\ UNCHANGED <<createVars, retryVars, waitVars, serverVars, cleanVars, runVars, unitVars>>

\* for future in as_completed(...): the value of a completed future is stored; an
\* exception the except clause catches is logged and stored as 0.0
Collect(k) ==
    /\ mPc = "collect"
    /\ qSt[k] = "done"
    /\ qSt' = [qSt EXCEPT ![k] = "collected"]
    /\ IF qOutcome[k].kind = "error" /\ ~Caught(qOutcome[k])
          THEN /\ mPc' = "raised"
               /\ mErr' = qOutcome[k]
               /\ results' = results
          ELSE /\ results' = Store(results, k, qOutcome[k])
               /\ UNCHANGED <<mPc, mErr>>
    /\ UNCHANGED <<mVariant, qAttempt, qSleeps, qOutcome, mTried, snapshot>>
    /\ UNCHANGED <<createVars, retryVars, waitVars, serverVars, cleanVars, runVars, unitVars>>

\* run_queries returns: a result set with a non-zero value is returned, else the
\* next variant is tried; after the last one the zeros are returned
RunQueriesReturn ==
    /\ mPc = "collect"
    /\ \A k \in MetricKeys : qSt[k] = "collected"
    /\ mTried' = Append(mTried, [variant |-> Variants[mVariant], results |-> results])
    /\ IF AnyNonZero(results)
          THEN mPc' = "returned" /\ snapshot' = results /\ mVariant' = mVariant
          ELSE IF mVariant < Len(Variants)
                  THEN mPc' = "variant" /\ snapshot' = snapshot /\ mVariant' = mVariant + 1
                  ELSE mPc' = "returned" /\ snapshot' = Zeros /\ mVariant' = mVariant
    /\ UNCHANGED <<qSt, qAttempt, qSleeps, qOutcome, results, mErr>>
    /\ UNCHANGED <<createVars, retryVars, waitVars, serverVars, cleanVars, runVars, unitVars>>

NextMetrics ==
    \/ MeasurePreflight
    \/ RunQueriesStart
    \/ \E k \in MetricKeys : QueryAttemptFail(k)
    \/ \E k \in MetricKeys : QueryAttemptOk(k)
    \/ \E k \in MetricKeys : Collect(k)
    \/ RunQueriesReturn

SpecMetrics == InitMetrics /\ [][NextMetrics]_vars

----------------------------------------------------------------------------
(* The control plane's answers to the teardown's calls *)

\* a list answers its items in name order
RECURSIVE SortedSeq(_)
SortedSeq(S) ==
    IF S = {} THEN <<>>
    ELSE LET m == CHOOSE x \in S : \A y \in S : x <= y
         IN  <<m>> \o SortedSeq(S \ {m})

\* any call can fail with a server error or below the API layer (at most
\* MaxFaults calls of the runs modelled do)
Faults ==
    IF srvFaults < MaxFaults THEN {ApiException(500, NoneBody, 0), OtherException(0)} ELSE {}

FaultsAfter(ans) ==
    IF ans.kind = "other" \/ (ans.kind = "api" /\ ans.status = 500) THEN srvFaults + 1 ELSE srvFaults

\* the answers to a delete: NoErr is success.  A resource that is gone answers
\* 404; one that is being deleted answers success again or 409
DeleteAnswers(st) ==
    Faults \cup
        (CASE st = "gone" -> {ApiException(404, NoneBody, 0)}
           [] st = "terminating" -> {NoErr, ApiException(409, NoneBody, 0)}
           [] OTHER -> {NoErr})

\* a deleted Project, Organization or ConfigMap record is gone once its
\* finalizers have run
AfterDelete(st, ans) == IF ans = NoErr /\ st = "present" THEN "terminating" ELSE st

\* the answers to the delete of a Secret or ConfigMap of the control plane of
\* project p, which is gone with the project
ObjectDeleteAnswers(p, present) ==
    Faults \cup (IF present /\ srvProjects[p] # "gone" THEN {NoErr}
                ELSE {ApiException(404, NoneBody, 0)})

\* the answers to a list in the control plane of project p
ObjectListAnswers(p) ==
    Faults \cup (IF srvProjects[p] = "gone" THEN {ApiException(404, NoneBody, 0)} ELSE {NoErr})

\* the finalizers of a resource being deleted complete
SrvFinalize ==
    /\ clPc # "idle"
    /\ \/ /\ \E p \in DOMAIN srvProjects :
               /\ srvProjects[p] = "terminating"
               /\ srvProjects' = [srvProjects EXCEPT ![p] = "gone"]
               /\ srvSecrets' = [srvSecrets EXCEPT ![p] = {}]
               /\ srvConfigMaps' = [srvConfigMaps EXCEPT ![p] = {}]
          /\ UNCHANGED <<srvOrg, srvCheckpoint>>
       \/ /\ srvOrg = "terminating"
          /\ srvOrg' = "gone"
          /\ UNCHANGED <<srvProjects, srvSecrets, srvConfigMaps, srvCheckpoint>>
       \/ /\ srvCheckpoint = "terminating"
          /\ srvCheckpoint' = "gone"
          /\ UNCHANGED <<srvProjects, srvSecrets, srvConfigMaps, srvOrg>>
    /\ UNCHANGED cleanVars
    /\ UNCHANGED <<createVars, retryVars, waitVars, metricVars, runVars, unitVars>>

----------------------------------------------------------------------------
(* cleanup_resources and the cleanup mode of main *)

\* except ApiException as e: if e.status != 404: raise
Tolerated404(e) == e.kind = "api" /\ e.status = 404

\* except ApiException as e: if e.status not in (404, 409): raise
Tolerated404Or409(e) == e.kind = "api" /\ e.status \in {404, 409}

\* an answer other than success, 404 and 409
FatalAnswer(ans) == ans # NoErr /\ ~(ans.kind = "api" /\ ans.status \in {404, 409})

\* the record of a delete call: its target, and the error it was answered with
\* when that is neither 404 nor 409
Issue(what, p, ans) ==
    [what |-> what, p |-> p, err |-> IF FatalAnswer(ans) THEN ans ELSE NoErr]

StraightToOrg(k, items) == "delete_org"

\* for pname in project_names: the position after the project at index k
AfterProject(k, items) == IF k < Len(items) THEN "list_secrets" ELSE "delete_org"

\* a run of main in cleanup mode starts on a control plane that holds the tree of
\* a test: n projects with s Secrets and c ConfigMaps each
InitCleanup ==
    /\ \E n \in 0..MaxProjects, ns \in 0..MaxSecrets, nc \in 0..MaxConfigMaps :
         /\ srvProjects = [p \in 1..n |-> "present"]
         /\ srvSecrets = [p \in 1..n |-> 1..ns]
         /\ srvConfigMaps = [p \in 1..n |-> 1..nc]
    /\ srvOrg = "present"
    /\ srvCheckpoint = "present"
    /\ clPass = 1
    /\ clPc = "list_projects"
    /\ clItems = <<>>
    /\ clIdx = 0
    /\ clObjs = <<>>
    /\ clObjIdx = 0
    /\ clListed = {}
    /\ clAttempted = {}
    /\ clObjFailed = FALSE
    /\ clErr = NoErr
    /\ clErrAt = "none"
    /\ srvFaults = 0
    /\ clIssued = <<>>
    /\ CreateIdle
    /\ RetryIdle
    /\ WaitIdle
    /\ MetricsIdle
    /\ RunIdle
    /\ UnitIdle

\* proj_list = coapi.list_cluster_custom_object(..., label_selector=...): the
\* labelled projects that still exist; an error of the list leaves cleanup_resources
CleanupListProjects ==
    /\ clPc = "list_projects"
    /\ \E ans \in Faults \cup {NoErr} :
         /\ srvFaults' = FaultsAfter(ans)
         /\ IF ans = NoErr
            THEN LET items == SortedSeq({p \in DOMAIN srvProjects : srvProjects[p] # "gone"})
                 IN  /\ clItems' = items
                     /\ clIdx' = 1
                     /\ clPc' = AfterProject(0, items)
                     /\ UNCHANGED <<clErr, clErrAt>>
            ELSE /\ clPc' = "failed"
                 /\ clErr' = ans
                 /\ clErrAt' = "list_projects"
                 /\ UNCHANGED <<clItems, clIdx>>
    /\ clListed' = {}
    /\ clAttempted' = {}
    /\ clObjFailed' = FALSE
    /\ UNCHANGED <<clPass, clObjs, clObjIdx>>
    /\ UNCHANGED serverVars
    /\ UNCHANGED clIssued
    /\ UNCHANGED <<createVars, retryVars, waitVars, metricVars, runVars, unitVars>>

\* sl = v1.list_namespaced_secret(...): an ApiException skips the Secrets, any
\* other exception skips the rest of the project's objects
CleanupListSecrets ==
    /\ clPc = "list_secrets"
    /\ \E ans \in ObjectListAnswers(clItems[clIdx]) :
         /\ srvFaults' = FaultsAfter(ans)
         /\ IF ans = NoErr
            THEN LET items == SortedSeq(srvSecrets[clItems[clIdx]])
                 IN  /\ clObjs' = items
                     /\ clObjIdx' = 1
                     /\ clListed' = clListed \cup {<<"secret", x>> : x \in srvSecrets[clItems[clIdx]]}
                     /\ clPc' = IF items = <<>> THEN "list_configmaps" ELSE "delete_secret"
            ELSE /\ clPc' = IF ans.kind = "api" THEN "list_configmaps" ELSE "delete_project"
                 /\ UNCHANGED <<clObjs, clObjIdx, clListed>>
    /\ UNCHANGED <<clPass, clItems, clIdx, clAttempted, clObjFailed, clErr, clErrAt>>
    /\ UNCHANGED serverVars
    /\ UNCHANGED clIssued
    /\ UNCHANGED <<createVars, retryVars, waitVars, metricVars, runVars, unitVars>>

\* v1.delete_namespaced_secret(...): 404 is passed over; another ApiException is
\* raised out of the for loop into "except ApiException: pass"; any other
\* exception ends the project's object cleanup
CleanupDeleteSecret ==
    /\ clPc = "delete_secret"
    /\ LET p == clItems[clIdx]
           x == clObjs[clObjIdx]
       IN  \E ans \in ObjectDeleteAnswers(p, x \in srvSecrets[p]) :
             /\ srvFaults' = FaultsAfter(ans)
             /\ clAttempted' = clAttempted \cup {<<"secret", x>>}
             /\ srvSecrets' = IF ans = NoErr THEN [srvSecrets EXCEPT ![p] = @ \ {x}] ELSE srvSecrets
             /\ clObjFailed' = (clObjFailed \/ (ans.kind = "api" /\ ans.status # 404))
             /\ IF ans = NoErr \/ Tolerated404(ans)
                   THEN /\ clObjIdx' = clObjIdx + 1
                        /\ clPc' = IF clObjIdx < Len(clObjs) THEN "delete_secret" ELSE "list_configmaps"
                   ELSE /\ clObjIdx' = clObjIdx
                        /\ clPc' = IF ans.kind = "api" THEN "list_configmaps" ELSE "delete_project"
    /\ UNCHANGED <<clPass, clItems, clIdx, clObjs, clListed, clErr, clErrAt>>
    /\ UNCHANGED <<srvProjects, srvConfigMaps, srvOrg, srvCheckpoint>>
    /\ UNCHANGED clIssued
    /\ UNCHANGED <<createVars, retryVars, waitVars, metricVars, runVars, unitVars>>

\* cml = v1.list_namespaced_config_map(...): any exception goes on to the Project
CleanupListConfigMaps ==
    /\ clPc = "list_configmaps"
    /\ \E ans \in ObjectListAnswers(clItems[clIdx]) :
         /\ srvFaults' = FaultsAfter(ans)
         /\ IF ans = NoErr
            THEN LET items == SortedSeq(srvConfigMaps[clItems[clIdx]])
                 IN  /\ clObjs' = items
                     /\ clObjIdx' = 1
                     /\ clListed' = clListed \cup {<<"configmap", x>> : x \in srvConfigMaps[clItems[clIdx]]}
                     /\ clPc' = IF items = <<>> THEN "delete_project" ELSE "delete_configmap"
            ELSE /\ clPc' = "delete_project"
                 /\ UNCHANGED <<clObjs, clObjIdx, clListed>>
    /\ UNCHANGED <<clPass, clItems, clIdx, clAttempted, clObjFailed, clErr, clErrAt>>
    /\ UNCHANGED serverVars
    /\ UNCHANGED clIssued
    /\ UNCHANGED <<createVars, retryVars, waitVars, metricVars, runVars, unitVars>>

\* v1.delete_namespaced_config_map(...): 404 is passed over, any other exception
\* ends the loop and is passed over by the enclosing handlers
CleanupDeleteConfigMap ==
    /\ clPc = "delete_configmap"
    /\ LET p == clItems[clIdx]
           x == clObjs[clObjIdx]
       IN  \E ans \in ObjectDeleteAnswers(p, x \in srvConfigMaps[p]) :
             /\ srvFaults' = FaultsAfter(ans)
             /\ clAttempted' = clAttempted \cup {<<"configmap", x>>}
             /\ srvConfigMaps' = IF ans = NoErr THEN [srvConfigMaps EXCEPT ![p] = @ \ {x}]
                                 ELSE srvConfigMaps
             /\ clObjFailed' = (clObjFailed \/ (ans.kind = "api" /\ ans.status # 404))
             /\ IF ans = NoErr \/ Tolerated404(ans)
                   THEN /\ clObjIdx' = clObjIdx + 1
                        /\ clPc' = IF clObjIdx < Len(clObjs) THEN "delete_configmap" ELSE "delete_project"
                   ELSE /\ clObjIdx' = clObjIdx
                        /\ clPc' = "delete_project"
    /\ UNCHANGED <<clPass, clItems, clIdx, clObjs, clListed, clErr, clErrAt>>
    /\ UNCHANGED <<srvProjects, srvSecrets, srvOrg, srvCheckpoint>>
    /\ UNCHANGED clIssued
    /\ UNCHANGED <<createVars, retryVars, waitVars, metricVars, runVars, unitVars>>

\* org_coapi.delete_cluster_custom_object(plural="projects", name=pname): 404 and
\* 409 are passed over, any other error leaves cleanup_resources
CleanupDeleteProject ==
    /\ clPc = "delete_project"
    /\ LET p == clItems[clIdx]
       IN  \E ans \in DeleteAnswers(srvProjects[p]) :
             /\ srvFaults' = FaultsAfter(ans)
             /\ srvProjects' = [srvProjects EXCEPT ![p] = AfterDelete(@, ans)]
             /\ clIssued' = Append(clIssued, Issue("project", p, ans))
             /\ IF ans = NoErr \/ Tolerated404Or409(ans)
                   THEN /\ clPc' = AfterProject(clIdx, clItems)
                        /\ clIdx' = clIdx + 1
                        /\ clListed' = {}
                        /\ clAttempted' = {}
                        /\ clObjFailed' = FALSE
                        /\ UNCHANGED <<clErr, clErrAt>>
                   ELSE /\ clPc' = "failed"
                        /\ clErr' = ans
                        /\ clErrAt' = "delete_project"
                        /\ UNCHANGED <<clIdx, clListed, clAttempted, clObjFailed>>
    /\ UNCHANGED <<clPass, clItems, clObjs, clObjIdx>>
    /\ UNCHANGED <<srvSecrets, srvConfigMaps, srvOrg, srvCheckpoint>>
    /\ UNCHANGED <<createVars, retryVars, waitVars, metricVars, runVars, unitVars>>

\* coapi.delete_cluster_custom_object(plural="organizations", name=org_name): 404
\* and 409 are passed over; cleanup_resources returns and main goes on
CleanupDeleteOrg ==
    /\ clPc = "delete_org"
    /\ \E ans \in DeleteAnswers(srvOrg) :
         /\ srvFaults' = FaultsAfter(ans)
         /\ srvOrg' = AfterDelete(srvOrg, ans)
         /\ clIssued' = Append(clIssued, Issue("org", 0, ans))
         /\ IF ans = NoErr \/ Tolerated404Or409(ans)
               THEN /\ clPc' = "delete_checkpoint"
                    /\ UNCHANGED <<clErr, clErrAt>>
               ELSE /\ clPc' = "failed"
                    /\ clErr' = ans
                    /\ clErrAt' = "delete_org"
    /\ UNCHANGED <<clPass, clItems, clIdx, clObjs, clObjIdx, clListed, clAttempted, clObjFailed>>
    /\ UNCHANGED <<srvProjects, srvSecrets, srvConfigMaps, srvCheckpoint>>
    /\ UNCHANGED <<createVars, retryVars, waitVars, metricVars, runVars, unitVars>>

\* main: v1.delete_namespaced_config_map(name="perf-results", ...): only 404 is
\* passed over; then "Cleanup complete"
CleanupDeleteCheckpoint ==
    /\ clPc = "delete_checkpoint"
    /\ \E ans \in DeleteAnswers(srvCheckpoint) :
         /\ srvFaults' = FaultsAfter(ans)
         /\ srvCheckpoint' = AfterDelete(srvCheckpoint, ans)
         /\ clIssued' = Append(clIssued, Issue("checkpoint", 0, ans))
         /\ IF ans = NoErr \/ Tolerated404(ans)
               THEN /\ clPc' = "done"
                    /\ UNCHANGED <<clErr, clErrAt>>
               ELSE /\ clPc' = "failed"
                    /\ clErr' = ans
                    /\ clErrAt' = "delete_checkpoint"
    /\ UNCHANGED <<clPass, clItems, clIdx, clObjs, clObjIdx, clListed, clAttempted, clObjFailed>>
    /\ UNCHANGED <<srvProjects, srvSecrets, srvConfigMaps, srvOrg>>
    /\ UNCHANGED <<createVars, retryVars, waitVars, metricVars, runVars, unitVars>>

\* cleanup mode is run again, with the same test id and organization name, after
\* a first run that completed
CleanupAgain ==
    /\ clPc = "done"
    /\ clPass = 1
    /\ clPass' = 2
    /\ clPc' = "list_projects"
    /\ clItems' = <<>>
    /\ clIdx' = 0
    /\ clObjs' = <<>>
    /\ clObjIdx' = 0
    /\ clIssued' = <<>>
    /\ UNCHANGED <<clListed, clAttempted, clObjFailed, clErr, clErrAt, srvFaults>>
    /\ UNCHANGED serverVars
    /\ UNCHANGED <<createVars, retryVars, waitVars, metricVars, runVars, unitVars>>

NextCleanup ==
    \/ CleanupListProjects
    \/ CleanupListSecrets
    \/ CleanupDeleteSecret
    \/ CleanupListConfigMaps
    \/ CleanupDeleteConfigMap
    \/ CleanupDeleteProject
    \/ CleanupDeleteOrg
    \/ CleanupDeleteCheckpoint
    \/ CleanupAgain
    \/ SrvFinalize

SpecCleanup == InitCleanup /\ [][NextCleanup]_vars

----------------------------------------------------------------------------
(* Properties of retry_with_backoff and create_org_and_projects *)

\* the classification of section 4.2: status 429 or 500, or a transient-failure
\* marker in the error body
RetryableClassified(e) ==
    /\ e.kind = "api"
    /\ \/ e.status = 429
       \/ e.status = 500
       \/ MsgOf(e) \cap {"Internal error occurred", "failed calling webhook", "EOF"} # {}

BackoffSequence == <<1, 2, 4, 8, 16>>

\* C1: after k retryable failures in a row and then a success (k < 6) fn has been
\* called exactly k+1 times and the result of that last call is returned; when
\* fn keeps failing retryably it is called exactly 6 times.  The sleeps between
\* consecutive attempts are 1, 2, 4, 8, 16 seconds in that order, and no sleep is
\* longer than 16 seconds.
C1_BackoffSchedule ==
    /\ rCalls <= 6
    /\ Len(rSleeps) <= 5
    /\ \A k \in 1..Len(rSleeps) : rSleeps[k] = BackoffSequence[k] /\ rSleeps[k] <= 16
    /\ rPc = "sleep" => Len(rSleeps) = rCalls - 1
    /\ rPc = "returned" => rCalls = Len(rSleeps) + 1 /\ rResult = rCalls
    /\ (rPc = "raised" /\ RetryableClassified(rFnErr)) => rCalls = 6 /\ Len(rSleeps) = 5

\* C1 witness: four retryable failures, then a success at the fifth call
C1_Witness ==
    /\ rPc = "returned"
    /\ rCalls = 5
    /\ rSleeps = <<1, 2, 4, 8>>
    /\ RetryableClassified(rFnErr)

\* C2: a create of the Organization or of a Project that answers 409, whatever
\* its body, is followed by no further call of the create function (no retry is
\* scheduled for it), and no 409 leaves create_org_and_projects as an error.
C2_ConflictNeverRetried ==
    /\ (rPc = "sleep" /\ cpPc \in {"create_org", "create_project"}) =>
           ~(rFnErr.kind = "api" /\ rFnErr.status = 409)
    /\ cpPc = "raised" => ~(cpErr.kind = "api" /\ cpErr.status = 409)

\* C3: an error that is not classified retryable ends the invocation at once: no
\* sleep follows it (a first call that fails so is the only call, with no sleep at
\* all) and the caller receives that very error; when all 6 attempts fail
\* retryably the caller receives the error of the 6th attempt, status and body
\* as raised.
C3_ErrorUnchanged ==
    /\ rPc = "sleep" => RetryableClassified(rFnErr)
    /\ rPc = "raised" =>
         /\ rRaised = rFnErr
         /\ rRaised.att = rCalls
         /\ Len(rSleeps) = rCalls - 1
         /\ ~RetryableClassified(rFnErr) => (rFnErr.att = 1 => rCalls = 1 /\ rSleeps = <<>>)
         /\ RetryableClassified(rFnErr) => rCalls = 6 /\ rRaised.att = 6

\* C3 witness: the sixth attempt fails retryably with 429 and that error is raised
C3_Witness ==
    /\ rPc = "raised"
    /\ rCalls = 6
    /\ rRaised = ApiException(429, TextBody({}), 6)

----------------------------------------------------------------------------
(* Properties of wait_condition_ready *)

WaitEnded == wPc \in {"returned", "timeout", "raised"}

\* C4: the poll whose fetched object holds a Ready condition with status True
\* returns success, with no further fetch or sleep (once such an object has been
\* observed the wait is in no other state than "returned"); success is returned
\* in no other case; and a wait that ends without having observed Ready=True
\* ends with the timeout error.
C4_ReadyOrTimeout ==
    /\ wSawReady => wPc = "returned"
    /\ wPc = "returned" => wSawReady /\ IsReady(wCond)
    /\ (WaitEnded /\ ~wSawReady) => wPc = "timeout"

\* C5: a failed status fetch never ends the wait: after a fetch has failed the
\* poller is still polling, or it ended with the timeout error (or with success
\* on a later poll), never with the fetch error.
C5_FetchErrorsTolerated ==
    /\ wFetchFailed => wPc \in {"loop", "sleep", "timeout", "returned"}
    /\ wPc # "raised"
    /\ wErr = NoErr

----------------------------------------------------------------------------
(* Properties of measure_metrics *)

HasNonZero(r) == \E k \in DOMAIN r : r[k] > 0

VariantOrder ==
    << <<"pod", TRUE>>, <<"pod", FALSE>>, <<"pod_name", TRUE>>, <<"pod_name", FALSE>> >>

\* C8: the selector combinations are tried in the order (pod, filtered),
\* (pod, unfiltered), (pod_name, filtered), (pod_name, unfiltered); a combination
\* is only tried after every earlier one gave zero for all four metrics; the
\* result set of the first combination with a non-zero metric is returned as it
\* is; and the all-zero snapshot is returned only after all four combinations
\* gave all zeros.
C8_FirstNonZeroVariant ==
    LET n == Len(mTried)
    IN  /\ n <= 4
        /\ \A j \in 1..n :
             <<mTried[j].variant.pod_label, mTried[j].variant.with_filter>> = VariantOrder[j]
        /\ \A j \in 1..(n - 1) : ~HasNonZero(mTried[j].results)
        /\ mPc \in {"variant", "collect"} => \A j \in 1..n : ~HasNonZero(mTried[j].results)
        /\ mPc = "returned" =>
             /\ n >= 1
             /\ HasNonZero(mTried[n].results) => snapshot = mTried[n].results
             /\ ~HasNonZero(snapshot) =>
                  /\ n = 4
                  /\ snapshot = Zeros
                  /\ \A j \in 1..4 : ~HasNonZero(mTried[j].results)

\* C8 witness: the first two combinations gave all zeros and the third one is returned
C8_Witness ==
    /\ mPc = "returned"
    /\ Len(mTried) = 3
    /\ HasNonZero(snapshot)
    /\ \E k \in MetricKeys : snapshot[k] = 0

\* C9: whatever queries fail and in whatever order the futures complete, every
\* collected query has its key in results, with 0 for a failed query and the
\* queried value for a successful one, and the snapshot measure_metrics returns
\* holds exactly the four keys with these values.
C9_SnapshotZeroFilled ==
    /\ \A k \in MetricKeys :
         qSt[k] = "collected" =>
             /\ k \in DOMAIN results
             /\ results[k] = (IF qOutcome[k].kind = "error" THEN 0 ELSE qOutcome[k].v)
    /\ mPc = "returned" =>
         /\ DOMAIN snapshot = MetricKeys
         /\ \A k \in MetricKeys :
              snapshot[k] = (IF qOutcome[k].kind = "error" THEN 0 ELSE qOutcome[k].v)

\* C9 witness: a returned snapshot of which one query failed in prom_query, one
\* gave up in http_get_json and one answered a non-zero value
C9_Witness ==
    /\ mPc = "returned"
    /\ qOutcome["apiserver_cpu_cores"] = Failure("status")
    /\ qOutcome["etcd_mem_bytes"] = Failure("transport")
    /\ snapshot["etcd_cpu_cores"] > 0

----------------------------------------------------------------------------
(* Properties of the teardown *)

\* C6: a second cleanup run, after a first one that completed, ends with no
\* error: no delete of the second run that answers 404 (already gone) or 409
\* (being deleted) ends the run, be it the delete of a Project, of the
\* Organization or of the checkpoint record.
C6_SecondCleanupTolerates ==
    (clPass = 2 /\ clPc = "failed") =>
        ~(/\ clErrAt \in {"delete_project", "delete_org", "delete_checkpoint"}
          /\ clErr.kind = "api"
          /\ clErr.status \in {404, 409})

\* C7: when the delete of a listed Secret or ConfigMap of a project answered a
\* status other than 404, the project's object cleanup still issues the delete of
\* every other listed Secret and ConfigMap before it goes on to the Project, and
\* the Project's delete is still issued.
C7_BestEffortPerObject ==
    /\ (clObjFailed /\ clPc = "delete_project") => clListed \subseteq clAttempted
    /\ clObjFailed =>
         \/ clPc \in {"list_configmaps", "delete_configmap", "delete_project"}
         \/ clPc = "failed" /\ clErrAt = "delete_project"

----------------------------------------------------------------------------
(* main in run mode: the checkpoints, the three measurements, the creation *)
(* of the organization and the projects, the readiness waits and the       *)
(* creation of the Secrets and ConfigMaps by the worker pools.             *)
(* measure_metrics is a begin and an end here (SpecMetrics is its model:   *)
(* it always returns a snapshot); the sleeps of retry_with_backoff and the *)
(* stabilization sleeps change no state of the run and are part of the     *)
(* step that follows them.                                                 *)

MaxConcurrency == 2   \* the largest PROJECT_CONCURRENCY and OBJECT_CONCURRENCY tried
MaxPolls       == 2   \* the most polls of one wait that find the project not Ready
MaxRunFaults   == 1   \* the most remote calls of a run answered with an error
MaxCreates     == 4   \* the most Secrets and ConfigMaps a run is asked to create in all

\* test_id = uuid.uuid4().hex[:8]: a token no earlier run used
FreshId == "7f3a9c1e"

\* the record an earlier run with another test_id left behind
StaleRecord == [exists |-> TRUE, test_id |-> "0b5d2e47", org_name |-> <<"perf-", "0b5d2e47">>,
                phase |-> "projects-ready", results |-> FALSE]

\* os.getenv("ORG_NAME") in the runs modelled: unset (None) or blank; a name
\* would be used as it is, stripped
OrgEnvs == {"unset", "blank"}

\* org_name = _org_env.strip() if (_org_env is not None and
\*            _org_env.strip() != "") else f"perf-{test_id}"
OrgName(env, tid) == IF env \in {"unset", "blank"} THEN <<"perf-", tid>> ELSE env

\* the data save_checkpoint writes: test_id, org_name, phase (and the extras)
CheckpointData(tid, on, ph) ==
    [exists |-> TRUE, test_id |-> tid, org_name |-> on, phase |-> ph, results |-> FALSE]

ResultsWithoutIds(tid, on) ==
    [exists |-> TRUE, test_id |-> "none", org_name |-> "none", phase |-> "none", results |-> TRUE]

\* cm_data of main: results.json, report.html, test_id, org_name
ResultsData(tid, on) ==
    [exists |-> TRUE, test_id |-> tid, org_name |-> on, phase |-> "none", results |-> TRUE]

RangeFromZero(n) == 0..n

\* range(1, n + 1)
Range(n) == 1..n

Kinds == {"secret", "configmap"}

\* num_secrets for create_secret, num_configmaps for create_configmap
ObjCount(kind) == IF kind = "secret" THEN num_secrets ELSE num_configmaps

\* the errors a remote call of the run can raise (while the run's faults last)
RunErrors(a) ==
    IF runFaults < MaxRunFaults
       THEN {ApiException(409, TextBody({"already exists"}), a),
             ApiException(429, NoneBody, a),
             ApiException(500, NoneBody, a),
             ApiException(403, NoneBody, a),
             OtherException(a)}
       ELSE {}

Unbounded(busy, max_workers) == TRUE

\* ThreadPoolExecutor(max_workers=n): a task starts when one of the n workers is free
WorkerFree(busy, max_workers) == busy < max_workers

\* if project_concurrency <= 1: a plain for loop, else a pool of project_concurrency workers
Sequential == project_concurrency <= 1

ProjectWorkers == IF Sequential THEN 1 ELSE project_concurrency

\* the tasks of a pool are started in the order they were submitted
FirstPending(f, x) == f[x] = "pending" /\ \A y \in DOMAIN f : y < x => f[y] # "pending"

\* the work_project calls in progress
Busy(st) == Cardinality({p \in DOMAIN st : st[p] \in Kinds})

\* the create calls of a pool that are in flight
InFlight(f) == Cardinality({k \in DOMAIN f : f[k] = "inflight"})

\* list(ex.map(...)) meets the first task that raised once every task before it
\* returned; leaving it cancels the tasks that have not started
Collected(f, x) == f[x] = "failed" /\ \A y \in DOMAIN f : y < x => f[y] = "done"

Cancel(f) == [x \in DOMAIN f |-> IF f[x] = "pending" THEN "cancelled" ELSE f[x]]

FirstCollected(st) == \E p \in DOMAIN st : st[p] = "done"

\* list(ex.map(work_project, project_names)), or the for loop, has the result of every project
AllCollected(st) == \A p \in DOMAIN st : st[p] = "done"

\* the environment's record of an error: the first call that ended with an
\* error other than 409, the calls hit by a transient error
FatalAfter(e, call) ==
    IF fatalAt = "none" /\ ~(e.kind = "api" /\ e.status = 409) THEN call ELSE fatalAt

TransientAfter(e, call) ==
    IF e.kind = "api" /\ (e.status \in {429, 500}
                          \/ MsgOf(e) \cap {"Internal error occurred", "failed calling webhook", "EOF"} # {})
       THEN transientAt \cup {call} ELSE transientAt

\* main reads its configuration and draws test_id; nothing has been called yet
InitRun ==
    /\ pc = "save_init"
    /\ test_id = FreshId
    /\ \E env \in OrgEnvs : org_name = OrgName(env, test_id)
    /\ nProjects \in 0..MaxProjects
    /\ num_secrets \in 0..MaxSecrets
    /\ num_configmaps \in 0..MaxConfigMaps
    /\ project_concurrency \in 1..MaxConcurrency
    /\ object_concurrency \in 1..MaxConcurrency
    /\ nProjects * (num_secrets + num_configmaps) <= MaxCreates
    /\ run_objects_phase \in BOOLEAN
    /\ record \in {NoRecord, StaleRecord}
    /\ idx = 0
    /\ names = <<>>
    /\ tries = 1
    /\ ready = 0
    /\ polls = 0
    /\ measuring = FALSE
    /\ snapshots = {}
    /\ projSt = [p \in Range(nProjects) |-> "pending"]
    /\ objSt = [kind \in Kinds |-> [p \in Range(nProjects) |-> [k \in Range(ObjCount(kind)) |-> "pending"]]]
    /\ runFaults = 0
    /\ ckWrites = <<>>
    /\ orgCalls = 0
    /\ projCalls = 0
    /\ observed = {}
    /\ fatalAt = "none"
    /\ persistFailed = "none"
    /\ transientAt = {}
    /\ conflictAt = {}
    /\ CreateIdle
    /\ RetryIdle
    /\ WaitIdle
    /\ MetricsIdle
    /\ CleanupIdle
    /\ UnitIdle

\* the phase each save_checkpoint call of main writes, and where main goes on
PhaseAt(at) ==
    CASE at = "save_init" -> "init"
      [] at = "save_org_created" -> "org-created"
      [] at = "save_projects_ready" -> "projects-ready"

AlwaysObjects(at) ==
    CASE at = "save_init" -> "baseline"
      [] at = "save_org_created" -> "after_projects"
      [] at = "save_projects_ready" -> "objects"

AfterSave(at) ==
    CASE at = "save_init" -> "baseline"
      [] at = "save_org_created" -> "after_projects"
      [] at = "save_projects_ready" -> IF run_objects_phase THEN "objects" ELSE "save_results"

\* save_checkpoint(target_ns, test_id, org_name, phase=...): save_results_configmap
\* reads the record and replaces its data, or creates it on a 404; any other
\* error leaves the record as it was and is raised, and main does not catch it
SaveCheckpoint ==
    /\ pc \in {"save_init", "save_org_created", "save_projects_ready"}
    /\ \/ /\ record' = CheckpointData(test_id, org_name, PhaseAt(pc))
          /\ ckWrites' = Append(ckWrites, PhaseAt(pc))
          /\ pc' = AfterSave(pc)
          /\ UNCHANGED <<runFaults, persistFailed>>
       \/ /\ RunErrors(1) # {}
          /\ runFaults' = runFaults + 1
          /\ persistFailed' = PhaseAt(pc)
          /\ pc' = "raised"
          /\ UNCHANGED <<record, ckWrites>>
    /\ UNCHANGED <<test_id, org_name, nProjects, num_secrets, num_configmaps, project_concurrency,
                   object_concurrency, run_objects_phase, idx, names, tries, ready, polls,
                   measuring, snapshots, projSt, objSt, orgCalls, projCalls, observed, fatalAt,
                   transientAt, conflictAt>>
    /\ UNCHANGED <<createVars, retryVars, waitVars, metricVars, serverVars, cleanVars, unitVars>>

\* the try around save_results_configmap(target_ns, "perf-results", cm_data):
\* an error is logged and main ends as it does after a write
SaveResults ==
    /\ pc = "save_results"
    /\ \/ /\ record' = ResultsData(test_id, org_name)
          /\ ckWrites' = Append(ckWrites, ResultsData(test_id, org_name).phase)
          /\ UNCHANGED <<runFaults, persistFailed>>
       \/ /\ RunErrors(1) # {}
          /\ runFaults' = runFaults + 1
          /\ persistFailed' = "results"
          /\ UNCHANGED <<record, ckWrites>>
    /\ pc' = "complete"
    /\ UNCHANGED <<test_id, org_name, nProjects, num_secrets, num_configmaps, project_concurrency,
                   object_concurrency, run_objects_phase, idx, names, tries, ready, polls,
                   measuring, snapshots, projSt, objSt, orgCalls, projCalls, observed, fatalAt,
                   transientAt, conflictAt>>
    /\ UNCHANGED <<createVars, retryVars, waitVars, metricVars, serverVars, cleanVars, unitVars>>

MeasurePoints == {"baseline", "after_projects", "after_secrets"}

AfterMeasure(at) ==
    CASE at = "baseline" -> "create_org"
      [] at = "after_projects" -> "save_projects_ready"
      [] at = "after_secrets" -> "save_results"

\* main calls measure_metrics (after the stabilization sleep, if any)
MeasureBegin ==
    /\ pc \in MeasurePoints
    /\ ~measuring
    /\ measuring' = TRUE
    /\ UNCHANGED <<pc, test_id, org_name, nProjects, num_secrets, num_configmaps,
                   project_concurrency, object_concurrency, run_objects_phase, record, idx, names,
                   tries, ready, polls, snapshots, projSt, objSt, runFaults, ckWrites, orgCalls,
                   projCalls, observed, fatalAt, persistFailed, transientAt, conflictAt>>
    /\ UNCHANGED <<createVars, retryVars, waitVars, metricVars, serverVars, cleanVars, unitVars>>

\* measure_metrics returns its snapshot
MeasureEnd ==
    /\ pc \in MeasurePoints
    /\ measuring
    /\ measuring' = FALSE
    /\ snapshots' = snapshots \cup {pc}
    /\ pc' = AfterMeasure(pc)
    /\ UNCHANGED <<test_id, org_name, nProjects, num_secrets, num_configmaps,
                   project_concurrency, object_concurrency, run_objects_phase, record, idx, names,
                   tries, ready, polls, projSt, objSt, runFaults, ckWrites, orgCalls,
                   projCalls, observed, fatalAt, persistFailed, transientAt, conflictAt>>
    /\ UNCHANGED <<createVars, retryVars, waitVars, metricVars, serverVars, cleanVars, unitVars>>

\* retry_with_backoff("create Organization", ...): one call of the create; a
\* return or a 409 goes on to the project loop, a retryable error to the next
\* attempt, any other error leaves create_org_and_projects and main
RunCreateOrg ==
    /\ pc = "create_org"
    /\ orgCalls' = orgCalls + 1
    /\ \/ /\ pc' = "create_project"
          /\ idx' = 1
          /\ tries' = 1
          /\ UNCHANGED <<runFaults, fatalAt, transientAt>>
       \/ \E e \in RunErrors(tries) :
            /\ runFaults' = runFaults + 1
            /\ transientAt' = TransientAfter(e, "org")
            /\ fatalAt' = IF Retried(e, tries) THEN fatalAt ELSE FatalAfter(e, "org")
            /\ IF Retried(e, tries)
                  THEN /\ tries' = tries + 1
                       /\ UNCHANGED <<pc, idx>>
                  ELSE IF Tolerated409(e)
                  THEN /\ pc' = "create_project"
                       /\ idx' = 1
                       /\ tries' = 1
                  ELSE /\ pc' = "raised"
                       /\ UNCHANGED <<idx, tries>>
    /\ UNCHANGED <<test_id, org_name, nProjects, num_secrets, num_configmaps,
                   project_concurrency, object_concurrency, run_objects_phase, record, names,
                   ready, polls, measuring, snapshots, projSt, objSt, ckWrites,
                   projCalls, observed, persistFailed, conflictAt>>
    /\ UNCHANGED <<createVars, retryVars, waitVars, metricVars, serverVars, cleanVars, unitVars>>

\* project_names.append(pname) at the first attempt of iteration idx
NamesAt(a) == IF a = 1 THEN Append(names, ProjectName(idx)) ELSE names

\* for i in range(1, num_projects + 1): one call of the create of Project i; a
\* return or a 409 goes on with the next i, a retryable error to the next
\* attempt, any other error is logged and leaves create_org_and_projects and main
RunCreateProject ==
    /\ pc = "create_project"
    /\ idx \in Range(nProjects)
    /\ projCalls' = projCalls + 1
    /\ names' = NamesAt(tries)
    /\ \/ /\ idx' = idx + 1
          /\ tries' = 1
          /\ UNCHANGED <<pc, runFaults, fatalAt, transientAt, conflictAt>>
       \/ \E e \in RunErrors(tries) :
            /\ runFaults' = runFaults + 1
            /\ transientAt' = TransientAfter(e, "project")
            /\ conflictAt' = IF tries = 1 /\ e.kind = "api" /\ e.status = 409
                                THEN conflictAt \cup {idx} ELSE conflictAt
            /\ fatalAt' = IF Retried(e, tries) THEN fatalAt ELSE FatalAfter(e, "project")
            /\ IF Retried(e, tries)
                  THEN /\ tries' = tries + 1
                       /\ UNCHANGED <<pc, idx>>
                  ELSE IF Tolerated409(e)
                  THEN /\ idx' = idx + 1
                       /\ tries' = 1
                       /\ UNCHANGED pc
                  ELSE /\ pc' = "raised"
                       /\ UNCHANGED <<idx, tries>>
    /\ UNCHANGED <<test_id, org_name, nProjects, num_secrets, num_configmaps,
                   project_concurrency, object_concurrency, run_objects_phase, record,
                   ready, polls, measuring, snapshots, projSt, objSt, ckWrites,
                   orgCalls, observed, persistFailed>>
    /\ UNCHANGED <<createVars, retryVars, waitVars, metricVars, serverVars, cleanVars, unitVars>>

\* the project loop is over: ready = 0 and the waits begin
RunProjectsIssued ==
    /\ pc = "create_project"
    /\ idx \notin Range(nProjects)
    /\ pc' = "wait"
    /\ ready' = 0
    /\ polls' = 0
    /\ UNCHANGED <<test_id, org_name, nProjects, num_secrets, num_configmaps,
                   project_concurrency, object_concurrency, run_objects_phase, record, idx, names,
                   tries, measuring, snapshots, projSt, objSt, runFaults, ckWrites, orgCalls,
                   projCalls, observed, fatalAt, persistFailed, transientAt, conflictAt>>
    /\ UNCHANGED <<createVars, retryVars, waitVars, metricVars, serverVars, cleanVars, unitVars>>

\* the history of what the fetches showed: a Ready condition with status True
ShowsReady(obj) ==
    /\ ~obj.absent
    /\ \E k \in DOMAIN obj.conditions : obj.conditions[k] = Condition("Ready", "True")

\* for pname in project_names: one poll of wait_condition_ready(..., pname,
\* timeout_s=900): the fetch answers an object; Ready returns and ready += 1,
\* anything else sleeps 2 s; an error of the fetch leaves wait_condition_ready,
\* create_org_and_projects and main
RunWaitPoll ==
    /\ pc = "wait"
    /\ ready < Len(names)
    /\ \/ \E obj \in FetchedObjects :
            /\ observed' = IF ShowsReady(obj) THEN observed \cup {ready + 1} ELSE observed
            /\ IF IsReady(find_condition(obj, "Ready"))
                  THEN /\ ready' = ready + 1
                       /\ polls' = 0
                  ELSE /\ polls < MaxPolls
                       /\ polls' = polls + 1
                       /\ UNCHANGED ready
            /\ UNCHANGED <<pc, runFaults, fatalAt, transientAt>>
       \/ \E e \in RunErrors(1) :
            /\ runFaults' = runFaults + 1
            /\ transientAt' = TransientAfter(e, "fetch")
            /\ fatalAt' = IF fatalAt = "none" THEN "fetch" ELSE fatalAt
            /\ pc' = "raised"
            /\ UNCHANGED <<ready, polls, observed>>
    /\ UNCHANGED <<test_id, org_name, nProjects, num_secrets, num_configmaps,
                   project_concurrency, object_concurrency, run_objects_phase, record, idx, names,
                   tries, measuring, snapshots, projSt, objSt, ckWrites, orgCalls,
                   projCalls, persistFailed, conflictAt>>
    /\ UNCHANGED <<createVars, retryVars, waitVars, metricVars, serverVars, cleanVars, unitVars>>

\* the deadline of the wait in progress passes before the project is Ready:
\* TimeoutError leaves create_org_and_projects and main
RunWaitTimeout ==
    /\ pc = "wait"
    /\ ready < Len(names)
    /\ polls >= 1
    /\ pc' = "raised"
    /\ fatalAt' = IF fatalAt = "none" THEN "timeout" ELSE fatalAt
    /\ UNCHANGED <<test_id, org_name, nProjects, num_secrets, num_configmaps,
                   project_concurrency, object_concurrency, run_objects_phase, record, idx, names,
                   tries, ready, polls, measuring, snapshots, projSt, objSt, runFaults, ckWrites,
                   orgCalls, projCalls, observed, persistFailed, transientAt, conflictAt>>
    /\ UNCHANGED <<createVars, retryVars, waitVars, metricVars, serverVars, cleanVars, unitVars>>

\* every project of project_names was waited for: create_org_and_projects returns
RunProjectsReady ==
    /\ pc = "wait"
    /\ ready = Len(names)
    /\ pc' = "save_org_created"
    /\ UNCHANGED <<test_id, org_name, nProjects, num_secrets, num_configmaps,
                   project_concurrency, object_concurrency, run_objects_phase, record, idx, names,
                   tries, ready, polls, measuring, snapshots, projSt, objSt, runFaults, ckWrites,
                   orgCalls, projCalls, observed, fatalAt, persistFailed, transientAt, conflictAt>>
    /\ UNCHANGED <<createVars, retryVars, waitVars, metricVars, serverVars, cleanVars, unitVars>>

\* what the run leaves alone while create_objects_in_projects is at work
ObjectsFrame ==
    /\ UNCHANGED <<test_id, org_name, nProjects, num_secrets, num_configmaps,
                   project_concurrency, object_concurrency, run_objects_phase, record, idx, names,
                   tries, ready, polls, measuring, snapshots, ckWrites, orgCalls, projCalls,
                   observed, persistFailed, conflictAt>>
    /\ UNCHANGED <<createVars, retryVars, waitVars, metricVars, serverVars, cleanVars, unitVars>>

\* work_project(pname) starts: in the for loop after the project before it
\* returned, in the pool when a worker is free
ProjectStart(p) ==
    /\ pc = "objects"
    /\ FirstPending(projSt, p)
    /\ WorkerFree(Busy(projSt), ProjectWorkers)
    /\ Sequential => \A q \in DOMAIN projSt : projSt[q] # "failed"
    /\ projSt' = [projSt EXCEPT ![p] = "secret"]
    /\ UNCHANGED <<pc, objSt, runFaults, fatalAt, transientAt>>
    /\ ObjectsFrame

\* a worker of the project's pool starts create_secret(k) or create_configmap(k)
ObjStart(p, k) ==
    /\ pc = "objects"
    /\ projSt[p] \in Kinds
    /\ k \in DOMAIN objSt[projSt[p]][p]
    /\ FirstPending(objSt[projSt[p]][p], k)
    /\ WorkerFree(InFlight(objSt[projSt[p]][p]), object_concurrency)
    /\ objSt' = [objSt EXCEPT ![projSt[p]][p][k] = "inflight"]
    /\ UNCHANGED <<pc, projSt, runFaults, fatalAt, transientAt>>
    /\ ObjectsFrame

\* a create task that would go back to the pool's queue after a 429 or a 500
RequeuedOnTransient(e) ==
    IF Tolerated409(e) THEN "done"
    ELSE IF e.kind = "api" /\ e.status \in {429, 500} THEN "pending"
    ELSE "failed"

\* except ApiException as e: if e.status != 409: raise -- the task is over
\* either way: it returned (409) or it raised (anything else)
AfterCreateError(e) == IF Tolerated409(e) THEN "done" ELSE "failed"

\* v1.create_namespaced_secret / create_namespaced_config_map answers: the
\* task returns on success and on a 409, any other error is raised in the task
ObjEnd(p, k) ==
    /\ pc = "objects"
    /\ projSt[p] \in Kinds
    /\ k \in DOMAIN objSt[projSt[p]][p]
    /\ objSt[projSt[p]][p][k] = "inflight"
    /\ \/ /\ objSt' = [objSt EXCEPT ![projSt[p]][p][k] = "done"]
          /\ UNCHANGED <<runFaults, fatalAt, transientAt>>
       \/ \E e \in RunErrors(1) :
            /\ runFaults' = runFaults + 1
            /\ transientAt' = TransientAfter(e, projSt[p])
            /\ fatalAt' = FatalAfter(e, "object")
            /\ objSt' = [objSt EXCEPT ![projSt[p]][p][k] = AfterCreateError(e)]
    /\ UNCHANGED <<pc, projSt>>
    /\ ObjectsFrame

\* list(ex.map(create_secret, ...)) raises the error of a task: the tasks of
\* the pool that have not started are cancelled
ObjCancel(p) ==
    /\ pc = "objects"
    /\ projSt[p] \in Kinds
    /\ \E k \in DOMAIN objSt[projSt[p]][p] : Collected(objSt[projSt[p]][p], k)
    /\ \E k \in DOMAIN objSt[projSt[p]][p] : objSt[projSt[p]][p][k] = "pending"
    /\ objSt' = [objSt EXCEPT ![projSt[p]][p] = Cancel(@)]
    /\ UNCHANGED <<pc, projSt, runFaults, fatalAt, transientAt>>
    /\ ObjectsFrame

\* the tasks of a pool are all over
Quiet(f) == \A k \in DOMAIN f : f[k] \in {"done", "failed", "cancelled"}

\* the stage of work_project after a pool whose tasks all returned
NextStage(kind) == IF kind = "secret" THEN "configmap" ELSE "done"

\* the with block of a pool ends once its tasks are over (or num_secrets /
\* num_configmaps is 0): work_project goes on to the ConfigMaps or returns, or
\* raises the error of a task
StageExit(p) ==
    /\ pc = "objects"
    /\ projSt[p] \in Kinds
    /\ Quiet(objSt[projSt[p]][p])
    /\ projSt' = [projSt EXCEPT ![p] =
                     IF \E k \in DOMAIN objSt[@][p] : objSt[@][p][k] = "failed"
                        THEN "failed" ELSE NextStage(@)]
    /\ UNCHANGED <<pc, objSt, runFaults, fatalAt, transientAt>>
    /\ ObjectsFrame

\* list(ex.map(work_project, project_names)) raises the error of a project:
\* the projects that have not started are cancelled
ProjectCancel ==
    /\ pc = "objects"
    /\ ~Sequential
    /\ \E p \in DOMAIN projSt : Collected(projSt, p)
    /\ \E p \in DOMAIN projSt : projSt[p] = "pending"
    /\ projSt' = Cancel(projSt)
    /\ UNCHANGED <<pc, objSt, runFaults, fatalAt, transientAt>>
    /\ ObjectsFrame

\* create_objects_in_projects returns
ObjectsReturn ==
    /\ pc = "objects"
    /\ AllCollected(projSt)
    /\ pc' = "after_secrets"
    /\ UNCHANGED <<projSt, objSt, runFaults, fatalAt, transientAt>>
    /\ ObjectsFrame

\* create_objects_in_projects raises the error of a project: in the for loop
\* at once, in the pool when the with block ends, after every started
\* work_project is over
ObjectsRaise ==
    /\ pc = "objects"
    /\ \E p \in DOMAIN projSt : projSt[p] = "failed"
    /\ Busy(projSt) = 0
    /\ Sequential \/ \A p \in DOMAIN projSt : projSt[p] # "pending"
    /\ pc' = "raised"
    /\ UNCHANGED <<projSt, objSt, runFaults, fatalAt, transientAt>>
    /\ ObjectsFrame

NextRun ==
    \/ SaveCheckpoint
    \/ SaveResults
    \/ MeasureBegin
    \/ MeasureEnd
    \/ RunCreateOrg
    \/ RunCreateProject
    \/ RunProjectsIssued
    \/ RunWaitPoll
    \/ RunWaitTimeout
    \/ RunProjectsReady
    \/ \E p \in DOMAIN projSt : ProjectStart(p)
    \/ \E p \in DOMAIN projSt, k \in 0..(MaxSecrets + MaxConfigMaps) : ObjStart(p, k)
    \/ \E p \in DOMAIN projSt, k \in 0..(MaxSecrets + MaxConfigMaps) : ObjEnd(p, k)
    \/ \E p \in DOMAIN projSt : ObjCancel(p)
    \/ \E p \in DOMAIN projSt : StageExit(p)
    \/ ProjectCancel
    \/ ObjectsReturn
    \/ ObjectsRaise

SpecRun == InitRun /\ [][NextRun]_vars

----------------------------------------------------------------------------
(* Properties of a run of main *)

\* the create calls issued so far for the Secrets or the ConfigMaps
Issued(kind) ==
    Cardinality({pk \in (DOMAIN projSt) \X (0..(MaxSecrets + MaxConfigMaps)) :
                    /\ pk[2] \in DOMAIN objSt[kind][pk[1]]
                    /\ objSt[kind][pk[1]][pk[2]] \in {"inflight", "done", "failed"}})

\* the create calls in flight
TotalInFlight ==
    Cardinality({kpk \in Kinds \X (DOMAIN projSt) \X (0..(MaxSecrets + MaxConfigMaps)) :
                    /\ kpk[3] \in DOMAIN objSt[kpk[1]][kpk[2]]
                    /\ objSt[kpk[1]][kpk[2]][kpk[3]] = "inflight"})

\* C11: a run in which no remote call fails and that has come to its end has
\* issued exactly 1 organization create, N project creates, N readiness waits
\* that each saw the project Ready, N*S Secret creates and N*C ConfigMap creates
\* (none of either when RUN_OBJECTS_PHASE is off), whatever the two concurrency
\* settings and the interleaving of the workers.
C11_ExactCreateCounts ==
    (pc = "complete" /\ runFaults = 0) =>
        /\ orgCalls = 1
        /\ projCalls = nProjects
        /\ ready = nProjects
        /\ observed = 1..nProjects
        /\ Issued("secret") = IF run_objects_phase THEN nProjects * num_secrets ELSE 0
        /\ Issued("configmap") = IF run_objects_phase THEN nProjects * num_configmaps ELSE 0

C11_Witness ==
    /\ pc = "complete"
    /\ runFaults = 0
    /\ run_objects_phase
    /\ nProjects = 2
    /\ num_secrets = 2
    /\ project_concurrency = 2
    /\ object_concurrency = 2
    /\ Issued("secret") = 4

\* the stages of main that follow create_org_and_projects
AfterProvisioning ==
    {"save_org_created", "after_projects", "save_projects_ready", "objects", "after_secrets",
     "save_results", "complete"}

\* C12: a project whose first create attempt answered 409 is in project_names
\* under its name, the conflict alone never ends the run, the stages after
\* create_org_and_projects are reached only after every project, that one
\* included, was waited for, and a run with no other error ends as a run
\* without the conflict does.
C12_ConflictProjectStillWaited ==
    /\ \A k \in conflictAt : k \in DOMAIN names /\ names[k] = ProjectName(k)
    /\ (conflictAt # {} /\ pc = "raised") => (fatalAt # "none" \/ persistFailed # "none")
    /\ (conflictAt # {} /\ pc \in AfterProvisioning) =>
           /\ Len(names) = nProjects
           /\ ready = nProjects
           /\ conflictAt \subseteq observed
    /\ (conflictAt # {} /\ pc = "complete" /\ runFaults = Cardinality(conflictAt)) =>
           /\ Issued("secret") = IF run_objects_phase THEN nProjects * num_secrets ELSE 0
           /\ Issued("configmap") = IF run_objects_phase THEN nProjects * num_configmaps ELSE 0
           /\ "after_projects" \in snapshots
           /\ record = ResultsData(test_id, org_name)

C12_Witness ==
    /\ conflictAt = {1}
    /\ nProjects = 2
    /\ run_objects_phase
    /\ pc = "complete"
    /\ Issued("secret") = 4

\* a readiness fetch has been issued
Polled == ready > 0 \/ polls > 0 \/ observed # {} \/ fatalAt \in {"fetch", "timeout"}

\* C13: once a project create has been issued the organization create is over;
\* once a readiness fetch has been issued every project create has been
\* issued; once a work_project or an object create has started every project
\* has been seen Ready.
C13_StageOrder ==
    /\ projCalls > 0 => (orgCalls >= 1 /\ pc \notin {"save_init", "baseline", "create_org"})
    /\ Polled => (Len(names) = nProjects /\ projCalls >= nProjects /\ idx = nProjects + 1)
    /\ (Busy(projSt) > 0 \/ Issued("secret") + Issued("configmap") > 0
            \/ \E p \in DOMAIN projSt : projSt[p] # "pending") =>
           /\ observed = 1..nProjects
           /\ ready = nProjects

C13_Witness ==
    /\ nProjects = 2
    /\ observed = {1, 2}
    /\ TotalInFlight > 0

\* C14: while measure_metrics runs, main is at one of its three measurement
\* points, no work_project is in progress and no create call is in flight; and
\* create_objects_in_projects has returned or raised only when that is so.
C14_NoSnapshotDuringProvisioning ==
    /\ measuring => (pc \in MeasurePoints /\ Busy(projSt) = 0 /\ TotalInFlight = 0)
    /\ pc # "objects" => (Busy(projSt) = 0 /\ TotalInFlight = 0)

C14_Witness ==
    /\ measuring
    /\ pc = "after_secrets"
    /\ nProjects = 2
    /\ project_concurrency = 2
    /\ Issued("secret") = 4

PhaseRank(ph) ==
    CASE ph = "init" -> 1
      [] ph = "org-created" -> 2
      [] ph = "projects-ready" -> 3
      [] ph = "objects-created" -> 4
      [] OTHER -> 0

\* C16: every write of a run stores a phase equal to or later than the phase
\* of the write before it, and a run that ends with every write made has
\* written at init, org-created, projects-ready and completion.
C16_PhaseNeverRegresses ==
    /\ \A j, k \in DOMAIN ckWrites : j < k => PhaseRank(ckWrites[j]) <= PhaseRank(ckWrites[k])
    /\ (pc = "complete" /\ persistFailed = "none") => Len(ckWrites) = 4

\* C17: from the first create request on, whatever happens to the run, the
\* record exists and holds the test_id and the org_name of this run.
C17_RecordHoldsIdentity ==
    orgCalls >= 1 =>
        /\ record.exists
        /\ record.test_id = test_id
        /\ record.org_name = org_name

C17_Witness ==
    /\ pc = "complete"
    /\ record.results
    /\ orgCalls >= 1
    /\ Len(ckWrites) = 4

\* C18: a write to the record that fails never ends the run with an error.
C18_PersistFailureTolerated ==
    persistFailed # "none" => pc # "raised"

\* C19: after an organization create, a project create or a readiness wait
\* ended with a fatal error, main has ended with the error; after an object
\* create did, main is still in create_objects_in_projects or has ended with
\* the error.  In both cases nothing of a later stage has happened: no
\* measurement is running or was taken after the failed stage, no object
\* creation was started after a failed organization, project or wait, and the
\* record exists and holds the last checkpoint written before the failure.
C19_FatalStopsRun ==
    /\ fatalAt \in {"org", "project", "timeout"} =>
           /\ pc = "raised"
           /\ snapshots = {"baseline"}
           /\ ckWrites = <<"init">>
           /\ record = CheckpointData(test_id, org_name, "init")
           /\ Issued("secret") + Issued("configmap") = 0
           /\ \A p \in DOMAIN projSt : projSt[p] = "pending"
    /\ fatalAt = "object" =>
           /\ pc \in {"objects", "raised"}
           /\ snapshots = {"baseline", "after_projects"}
           /\ ckWrites = <<"init", "org-created", "projects-ready">>
           /\ record = CheckpointData(test_id, org_name, "projects-ready")
    /\ fatalAt # "none" => ~measuring

C19_Witness ==
    /\ fatalAt = "object"
    /\ pc = "raised"
    /\ nProjects = 2
    /\ project_concurrency = 2

\* C20: a run whose only error is one transient error of an organization
\* create, a project create, a readiness fetch or a Secret/ConfigMap create
\* does not end with an error.
C20_TransientRecovered ==
    (transientAt # {} /\ runFaults = 1) => pc # "raised"

----------------------------------------------------------------------------
(* Properties of the order and the failures of cleanup_resources *)

\* the positions of cleanup_resources inside the object cleanup of a project
ObjectSteps == {"list_secrets", "delete_secret", "list_configmaps", "delete_configmap"}

\* the deletes of a whole run over the listed projects, in order
FullOrder ==
    [j \in 1..(Len(clItems) + 2) |->
        IF j <= Len(clItems) THEN [what |-> "project", p |-> clItems[j]]
        ELSE IF j = Len(clItems) + 1 THEN [what |-> "org", p |-> 0]
        ELSE [what |-> "checkpoint", p |-> 0]]

\* C23: while the objects of a listed project are being deleted, the delete of
\* that project has not been issued; the deletes issued by a run are a prefix of:
\* the listed projects in order, then the organization, then the checkpoint record
C23_TeardownOrder ==
    /\ Len(clIssued) <= Len(FullOrder)
    /\ \A j \in 1..Len(clIssued) :
          /\ clIssued[j].what = FullOrder[j].what
          /\ clIssued[j].p = FullOrder[j].p
    /\ clPc \in ObjectSteps =>
          /\ Len(clIssued) = clIdx - 1
          /\ \A j \in 1..Len(clIssued) : clIssued[j].p # clItems[clIdx]

C23_Witness ==
    /\ clPass = 1
    /\ clPc = "done"
    /\ Len(clItems) >= 2
    /\ Len(clIssued) = Len(clItems) + 2

\* C24: a Project or Organization delete answered with an error other than 404
\* and 409 is the last delete of the run, the run has ended with that error, and
\* the checkpoint record is still there
C24_FatalDeleteEndsCleanup ==
    \A j \in 1..Len(clIssued) :
        (clIssued[j].what \in {"project", "org"} /\ clIssued[j].err # NoErr) =>
            /\ j = Len(clIssued)
            /\ clPc = "failed"
            /\ clErr = clIssued[j].err
            /\ FatalAnswer(clErr)
            /\ clErrAt = (IF clIssued[j].what = "project" THEN "delete_project" ELSE "delete_org")
            /\ clPass = 1 => srvCheckpoint = "present"

C24_Witness ==
    /\ clPc = "failed"
    /\ clErrAt = "delete_project"
    /\ Len(clItems) >= 2
    /\ clIdx = 1
    /\ Len(clIssued) = 1
    /\ srvOrg = "present"

----------------------------------------------------------------------------
(* Properties of the stages of create_objects_in_projects and of main *)

\* every create call of the object stage has been issued and has returned
AllObjectsCreated ==
    \A kind \in Kinds : \A p \in DOMAIN projSt : \A k \in DOMAIN objSt[kind][p] :
        objSt[kind][p][k] = "done"

\* C29: with RUN_OBJECTS_PHASE off no Secret or ConfigMap create is ever issued
\* and a run that completes has taken the baseline and after-projects snapshots
\* only and, unless the write failed, left the results in the record; with it on
\* a run that completes has taken three snapshots, and the third is started
\* only when every object create has returned
C29_ObjectsPhaseSwitch ==
    /\ ~run_objects_phase =>
          /\ Issued("secret") = 0
          /\ Issued("configmap") = 0
          /\ pc \notin {"objects", "after_secrets"}
          /\ "after_secrets" \notin snapshots
          /\ pc = "complete" =>
                /\ snapshots = {"baseline", "after_projects"}
                /\ persistFailed # "results" => record = ResultsData(test_id, org_name)
    /\ run_objects_phase =>
          /\ pc = "complete" => snapshots = MeasurePoints
          /\ (pc = "after_secrets" \/ "after_secrets" \in snapshots) =>
                /\ AllObjectsCreated
                /\ Issued("secret") = nProjects * num_secrets
                /\ Issued("configmap") = nProjects * num_configmaps

C29_Witness ==
    /\ pc = "complete"
    /\ ~run_objects_phase
    /\ nProjects = 2
    /\ num_secrets = 2
    /\ record = ResultsData(test_id, org_name)

\* C25: with project_concurrency <= 1 a project is started only when every
\* project before it in project_names has returned, so no create of a project
\* is in flight or pending while a later project has one issued
C25_SequentialProjects ==
    Sequential =>
        \A p \in DOMAIN projSt : \A q \in DOMAIN projSt :
            (p < q /\ projSt[q] \notin {"pending", "cancelled"}) =>
                /\ projSt[p] = "done"
                /\ \A kind \in Kinds : \A k \in DOMAIN objSt[kind][p] :
                      objSt[kind][p][k] = "done"

C25_Witness ==
    /\ Sequential
    /\ nProjects = 2
    /\ projSt[2] = "secret"
    /\ num_secrets = 2
    /\ object_concurrency = 2
    /\ Issued("secret") = 4

----------------------------------------------------------------------------
(* http_get_json *)

\* what requests.get, raise_for_status and resp.json() can raise
HttpErrorKinds == {"ConnectionError", "HTTPError", "JSONDecodeError"}

\* the error raised in attempt number a
HttpError(kind, a) == [kind |-> kind, attempt |-> a]

\* the decoded bodies of a response
HttpBodies == {"vector", "empty"}

SleepFlat(att) == HttpBackoff

\* sleep_s = 2 * (attempt + 1)
SleepFor(att) == HttpBackoff * (att + 1)

InitHttp ==
    /\ hPc = "call"
    /\ hAttempt = 0
    /\ last_err = NoErr
    /\ hResult = "none"
    /\ hRaised = NoErr
    /\ hCalls = 0
    /\ hSleeps = <<>>
    /\ hErrs = <<>>
    /\ MainIdle
    /\ TreeIdle
    /\ SaveIdle
    /\ StartIdle
    /\ TimedIdle
    /\ DeriveIdle

\* one round of the loop whose try block returns: return resp.json()
HttpAttemptOk ==
    /\ hPc = "call"
    /\ hAttempt < HttpAttempts
    /\ hCalls' = hCalls + 1
    /\ \E body \in HttpBodies : hResult' = body
    /\ hPc' = "returned"
    /\ UNCHANGED <<hAttempt, last_err, hRaised, hSleeps, hErrs>>
    /\ UNCHANGED <<mainVars, saveVars, startVars, timedVars, deriveVars, treeVars>>

\* one round of the loop whose try block raises: last_err = e, the sleep, and
\* the next value of range(6) or the end of the loop
HttpAttemptFail ==
    /\ hPc = "call"
    /\ hAttempt < HttpAttempts
    /\ hCalls' = hCalls + 1
    /\ \E kind \in HttpErrorKinds :
         /\ last_err' = HttpError(kind, hAttempt + 1)
         /\ hErrs' = Append(hErrs, HttpError(kind, hAttempt + 1))
    /\ hSleeps' = Append(hSleeps, SleepFor(hAttempt))
    /\ hAttempt' = hAttempt + 1
    /\ hPc' = IF hAttempt + 1 < HttpAttempts THEN "call" ELSE "exhausted"
    /\ UNCHANGED <<hResult, hRaised>>
    /\ UNCHANGED <<mainVars, saveVars, startVars, timedVars, deriveVars, treeVars>>

\* assert last_err is not None; raise last_err
HttpRaise ==
    /\ hPc = "exhausted"
    /\ hRaised' = last_err
    /\ hPc' = "raised"
    /\ UNCHANGED <<hAttempt, last_err, hResult, hCalls, hSleeps, hErrs>>
    /\ UNCHANGED <<mainVars, saveVars, startVars, timedVars, deriveVars, treeVars>>

NextHttp ==
    \/ HttpAttemptOk
    \/ HttpAttemptFail
    \/ HttpRaise

SpecHttp == InitHttp /\ [][NextHttp]_vars

\* C30: http_get_json calls requests.get at most 6 times; it returns with the
\* response of the first attempt that succeeded, having made no attempt after
\* it; the sleep after failed attempt number a is 2*a seconds; after 6 failed
\* attempts the error it raises is the error of the 6th attempt
C30_HttpRetrySchedule ==
    /\ hCalls <= 6
    /\ Len(hErrs) <= 6
    /\ hSleeps = [a \in 1..Len(hErrs) |-> 2 * a]
    /\ hPc = "call" => hCalls = Len(hErrs) /\ hCalls < 6
    /\ hPc = "returned" => hCalls = Len(hErrs) + 1 /\ hResult \in HttpBodies /\ hRaised = NoErr
    /\ hPc \in {"exhausted", "raised"} => hCalls = 6 /\ Len(hErrs) = 6
    /\ hPc = "raised" => hRaised = hErrs[6] /\ hRaised.attempt = 6 /\ hResult = "none"

C30_Witness ==
    /\ hPc = "raised"
    /\ hSleeps = <<2, 4, 6, 8, 10, 12>>

----------------------------------------------------------------------------
(* save_results_configmap *)

SaveKeys == {"test_id", "phase", "results"}

SaveValues == {"x", "y"}

\* data: dict[str, str], as the set of its items
Mappings == {m \in SUBSET (SaveKeys \X SaveValues) : \A a \in m : \A b \in m : a[1] = b[1] => a = b}

\* the ConfigMaps that may be there when the call starts
StoredBefore == {Absent} \cup {[exists |-> TRUE, data |-> m, uid |-> "old"] : m \in Mappings}

MergeData(old, new) == new \cup {a \in old : \A b \in new : b[1] # a[1]}

\* existing.data = data
ReplaceData(old, new) == new

\* if e.status == 404
RecordMissing(e) == e.kind = "api" /\ e.status = 404

\* the errors an API call on the ConfigMap can answer whatever the state of the store
SaveFaults(call) == {ApiException(500, NoneBody, call), ApiException(403, NoneBody, call),
                     OtherException(call)}

InitSave ==
    /\ sPc = "config"
    /\ sStore \in StoredBefore
    /\ sData \in Mappings
    /\ sErr = NoErr
    /\ sBefore = sStore
    /\ sAnswers = <<>>
    /\ MainIdle
    /\ TreeIdle
    /\ HttpIdle
    /\ StartIdle
    /\ TimedIdle
    /\ DeriveIdle

\* load_incluster_config(), or load_kube_config() when it fails; an error of
\* the latter leaves the function
SaveLoadConfig ==
    /\ sPc = "config"
    /\ \/ /\ sPc' = "read"
          /\ UNCHANGED <<sErr, sAnswers>>
       \/ /\ sPc' = "raised"
          /\ sErr' = OtherException(0)
          /\ sAnswers' = Append(sAnswers, OtherException(0))
    /\ UNCHANGED <<sStore, sData, sBefore>>
    /\ UNCHANGED <<mainVars, httpVars, startVars, timedVars, deriveVars, treeVars>>

\* existing = v1.read_namespaced_config_map(...): 404 when there is none
SaveRead ==
    /\ sPc = "read"
    /\ \E ans \in SaveFaults(1) \cup (IF sStore.exists THEN {NoErr} ELSE {ApiException(404, NoneBody, 1)}) :
         /\ sAnswers' = IF ans = NoErr THEN sAnswers ELSE Append(sAnswers, ans)
         /\ IF ans = NoErr
               THEN sPc' = "replace" /\ sErr' = sErr
               ELSE IF RecordMissing(ans)
                       THEN sPc' = "create" /\ sErr' = sErr
                       ELSE sPc' = "raised" /\ sErr' = ans
    /\ UNCHANGED <<sStore, sData, sBefore>>
    /\ UNCHANGED <<mainVars, httpVars, startVars, timedVars, deriveVars, treeVars>>

\* existing.data = data; v1.replace_namespaced_config_map(..., body=existing)
SaveReplace ==
    /\ sPc = "replace"
    /\ \E ans \in SaveFaults(2) \cup {NoErr} :
         /\ sAnswers' = IF ans = NoErr THEN sAnswers ELSE Append(sAnswers, ans)
         /\ IF ans = NoErr
               THEN /\ sStore' = [sStore EXCEPT !.data = ReplaceData(@, sData)]
                    /\ sPc' = "returned"
                    /\ sErr' = sErr
               ELSE /\ sStore' = sStore
                    /\ IF RecordMissing(ans)
                          THEN sPc' = "create" /\ sErr' = sErr
                          ELSE sPc' = "raised" /\ sErr' = ans
    /\ UNCHANGED <<sData, sBefore>>
    /\ UNCHANGED <<mainVars, httpVars, startVars, timedVars, deriveVars, treeVars>>

\* v1.create_namespaced_config_map(namespace=namespace, body=cm), inside the
\* except clause: its own error leaves the function
SaveCreate ==
    /\ sPc = "create"
    /\ \E ans \in SaveFaults(3) \cup {NoErr} :
         /\ sAnswers' = IF ans = NoErr THEN sAnswers ELSE Append(sAnswers, ans)
         /\ IF ans = NoErr
               THEN /\ sStore' = [exists |-> TRUE, data |-> sData, uid |-> "new"]
                    /\ sPc' = "returned"
                    /\ sErr' = sErr
               ELSE /\ sStore' = sStore
                    /\ sPc' = "raised"
                    /\ sErr' = ans
    /\ UNCHANGED <<sData, sBefore>>
    /\ UNCHANGED <<mainVars, httpVars, startVars, timedVars, deriveVars, treeVars>>

NextSave ==
    \/ SaveLoadConfig
    \/ SaveRead
    \/ SaveReplace
    \/ SaveCreate

SpecSave == InitSave /\ [][NextSave]_vars

\* C26: with no other writer, save_results_configmap returns both when the
\* ConfigMap was absent (it is created) and when it was there (the same object
\* is replaced), and then the data of the ConfigMap is exactly the argument;
\* every error answer other than the 404 of the read has been raised, and the
\* ConfigMap is then as it was
C26_UpsertExact ==
    /\ sPc = "returned" =>
          /\ sStore.exists
          /\ sStore.data = sData
          /\ sStore.uid = (IF sBefore.exists THEN "old" ELSE "new")
          /\ sErr = NoErr
          /\ sAnswers = (IF sBefore.exists THEN <<>> ELSE <<ApiException(404, NoneBody, 1)>>)
    /\ \A j \in 1..Len(sAnswers) :
          ~(sAnswers[j].kind = "api" /\ sAnswers[j].status = 404) =>
              /\ j = Len(sAnswers)
              /\ sPc = "raised"
              /\ sErr = sAnswers[j]
              /\ sStore = sBefore
    /\ sPc = "raised" => sErr # NoErr /\ sErr = sAnswers[Len(sAnswers)]

C26_Witness ==
    /\ sPc = "returned"
    /\ sBefore.exists
    /\ sBefore.data = {<<"results", "x">>, <<"phase", "x">>}
    /\ sData = {<<"phase", "y">>, <<"test_id", "x">>}

----------------------------------------------------------------------------
(* get_env and the start of main *)

\* None, and a str
None == [set |-> FALSE, text |-> ""]

Str(t) == [set |-> TRUE, text |-> t]

\* the variables of the environment main reads, and the values tried for them
EnvValues ==
    [RUN_MODE |-> {None, Str("run"), Str("cleanup"), Str("CLEANUP"), Str("bogus")},
     TARGET_NAMESPACE |-> {None, Str("perf")},
     MILO_KUBECONFIG_PATH |-> {None},
     TEST_ID |-> {None, Str(""), Str("ab12cd34")},
     ORG_NAME |-> {None, Str(""), Str("perf-ab12cd34")},
     MILO_NAMESPACE |-> {None},
     VM_BASE_URL |-> {None, Str(""), Str("http://vm:8481")},
     APISERVER_POD_REGEX |-> {None},
     ETCD_POD_REGEX |-> {None},
     MEASURE_WINDOW |-> {None},
     STABILIZE_SECONDS |-> {None},
     NUM_PROJECTS |-> {None, Str("2"), Str("many")},
     NUM_SECRETS_PER_PROJECT |-> {None},
     NUM_CONFIGMAPS_PER_PROJECT |-> {None},
     PROJECT_CONCURRENCY |-> {None},
     OBJECT_CONCURRENCY |-> {None}]

\* str.lower()
Lower(t) == IF t = "CLEANUP" THEN "cleanup" ELSE t

\* int(text) returns, or raises ValueError
ParsesAsInt(t) == t \in {"2", "4", "8", "90", "100"}

\* os.getenv(name, default)
getenv(name, default) == IF environ[name].set THEN environ[name] ELSE default

NeverMissing(value) == FALSE

\* if value is None
Missing(value) == ~value.set

Setting(name, default, int) == [name |-> name, default |-> default, int |-> int]

\* the settings main reads before its first remote call, in order, with the
\* default of each (None: get_env without a default) and whether int() is applied
Settings(mode) ==
    IF mode = "cleanup"
       THEN <<Setting("TARGET_NAMESPACE", Str("milo-system"), FALSE),
              Setting("MILO_KUBECONFIG_PATH", Str("/work/milo-kubeconfig"), FALSE),
              Setting("TEST_ID", None, FALSE),
              Setting("ORG_NAME", None, FALSE)>>
       ELSE <<Setting("TARGET_NAMESPACE", Str("milo-system"), FALSE),
              Setting("MILO_KUBECONFIG_PATH", Str("/work/milo-kubeconfig"), FALSE),
              Setting("MILO_NAMESPACE", Str("milo-system"), FALSE),
              Setting("VM_BASE_URL", None, FALSE),
              Setting("APISERVER_POD_REGEX", Str("milo-apiserver.*"), FALSE),
              Setting("ETCD_POD_REGEX", Str("etcd.*"), FALSE),
              Setting("MEASURE_WINDOW", Str("2m"), FALSE),
              Setting("STABILIZE_SECONDS", Str("90"), TRUE),
              Setting("NUM_PROJECTS", Str("100"), TRUE),
              Setting("NUM_SECRETS_PER_PROJECT", Str("100"), TRUE),
              Setting("NUM_CONFIGMAPS_PER_PROJECT", Str("100"), TRUE),
              Setting("PROJECT_CONCURRENCY", Str("4"), TRUE),
              Setting("OBJECT_CONCURRENCY", Str("8"), TRUE)>>

\* the first remote call of each branch: the list of the labelled projects in
\* cleanup_resources, the read of the record in save_checkpoint
FirstCall(mode) == IF mode = "cleanup" THEN "list_projects" ELSE "read_checkpoint"

InitStart ==
    /\ \E mode \in EnvValues.RUN_MODE, ns \in EnvValues.TARGET_NAMESPACE, tid \in EnvValues.TEST_ID,
          org \in EnvValues.ORG_NAME, url \in EnvValues.VM_BASE_URL, n \in EnvValues.NUM_PROJECTS :
         environ = [v \in DOMAIN EnvValues |->
                       CASE v = "RUN_MODE" -> mode
                         [] v = "TARGET_NAMESPACE" -> ns
                         [] v = "TEST_ID" -> tid
                         [] v = "ORG_NAME" -> org
                         [] v = "VM_BASE_URL" -> url
                         [] v = "NUM_PROJECTS" -> n
                         [] OTHER -> None]
    /\ stPc = "mode"
    /\ stMode = "none"
    /\ stIdx = 0
    /\ stExit = -1
    /\ stStderr = "none"
    /\ stRemote = <<>>
    /\ MainIdle
    /\ TreeIdle
    /\ HttpIdle
    /\ SaveIdle
    /\ TimedIdle
    /\ DeriveIdle

\* run_mode = os.getenv("RUN_MODE", "run").lower(); if run_mode == "cleanup"
StartReadMode ==
    /\ stPc = "mode"
    /\ stMode' = IF Lower(getenv("RUN_MODE", Str("run")).text) = "cleanup" THEN "cleanup" ELSE "run"
    /\ stIdx' = 1
    /\ stPc' = "settings"
    /\ UNCHANGED <<environ, stExit, stStderr, stRemote>>
    /\ UNCHANGED <<mainVars, httpVars, saveVars, timedVars, deriveVars, treeVars>>

\* get_env(name, default) and the int() around it: sys.exit(1) when the value
\* is None, an uncaught ValueError (exit status 1) when int() fails
StartGetEnv ==
    /\ stPc = "settings"
    /\ LET st == Settings(stMode)[stIdx]
           value == getenv(st.name, st.default)
       IN  IF Missing(value)
              THEN /\ stStderr' = st.name
                   /\ stExit' = 1
                   /\ stPc' = "exited"
                   /\ stIdx' = stIdx
              ELSE IF st.int /\ ~ParsesAsInt(value.text)
                      THEN /\ stStderr' = "ValueError"
                           /\ stExit' = 1
                           /\ stPc' = "exited"
                           /\ stIdx' = stIdx
                      ELSE /\ stIdx' = stIdx + 1
                           /\ stPc' = IF stIdx < Len(Settings(stMode)) THEN "settings" ELSE "first_call"
                           /\ UNCHANGED <<stStderr, stExit>>
    /\ UNCHANGED <<environ, stMode, stRemote>>
    /\ UNCHANGED <<mainVars, httpVars, saveVars, timedVars, deriveVars, treeVars>>

\* cleanup_resources(...) or save_checkpoint(..., phase="init") issues the
\* first remote call of the process
StartFirstCall ==
    /\ stPc = "first_call"
    /\ stRemote' = Append(stRemote, FirstCall(stMode))
    /\ stPc' = "running"
    /\ UNCHANGED <<environ, stMode, stIdx, stExit, stStderr>>
    /\ UNCHANGED <<mainVars, httpVars, saveVars, timedVars, deriveVars, treeVars>>

NextStart ==
    \/ StartReadMode
    \/ StartGetEnv
    \/ StartFirstCall

SpecStart == InitStart /\ [][NextStart]_vars

\* C22: in cleanup mode with TEST_ID or ORG_NAME not set, and in run mode
\* with VM_BASE_URL not set, the process attempts no remote call, and once it
\* has read its settings it has exited with status 1
C22_MissingSettingExitsFirst ==
    LET cleanup == environ["RUN_MODE"] \in {Str("cleanup"), Str("CLEANUP")}
        lacking == IF cleanup
                      THEN environ["TEST_ID"] = None \/ environ["ORG_NAME"] = None
                      ELSE environ["VM_BASE_URL"] = None
    IN  lacking =>
            /\ stRemote = <<>>
            /\ stPc \in {"mode", "settings", "exited"}
            /\ stPc = "exited" => stExit = 1

C22_Witness ==
    /\ environ["RUN_MODE"] = Str("cleanup")
    /\ environ["TEST_ID"] = Str("ab12cd34")
    /\ environ["ORG_NAME"] = None
    /\ stPc = "exited"
    /\ stStderr = "ORG_NAME"
    /\ stExit = 1

----------------------------------------------------------------------------
(* create_org_and_projects against the clock: the project creates, the      *)
(* readiness loop and the duration it returns                               *)

MaxRetries    == 2     \* the create calls of one call answered with a retryable error
CreateLatency == 3     \* the seconds a create call takes
FastFetch     == 298   \* the seconds a quick fetch takes
SlowFetch     == 598   \* the seconds a slow fetch takes

\* the answers of a project create
TimedCreateAnswers ==
    {NoErr, ApiException(409, NoneBody, 0), ApiException(403, NoneBody, 0)}
        \cup (IF tRetries < MaxRetries THEN {ApiException(500, NoneBody, 0)} ELSE {})

DeadlineOfLoop(start, timeout) == tLoopStart + timeout

\* deadline = start + timeout_s
Deadline(start, timeout) == start + timeout

SinceEpoch(start, end) == end

\* total_seconds = end - start
Elapsed(start, end) == end - start

\* TimeoutError(f"Timed out waiting for {plural}/{name} Ready")
TimedOut(name) == <<"Timed out waiting for ", "projects", "/">> \o name \o <<" Ready">>

\* the state at "start = time.time()", after the organization has been created
InitTimed ==
    /\ tPc = "create"
    /\ tClock = Epoch
    /\ tN \in 0..MaxProjects
    /\ tI = 1
    /\ tTries = 1
    /\ tDelay = InitialDelay
    /\ tStart = tClock
    /\ tWStart = 0
    /\ tDeadline = 0
    /\ tTotal = -1
    /\ tErr = "none"
    /\ tRetries = 0
    /\ tLoopStart = -1
    /\ tReadyAt = -1
    /\ tFetchAt = -1
    /\ tPolled = {}
    /\ tObserved = {}
    /\ tObjects = FALSE
    /\ MainIdle
    /\ TreeIdle
    /\ HttpIdle
    /\ SaveIdle
    /\ StartIdle
    /\ DeriveIdle

\* for i in range(1, num_projects + 1) is over: ready = 0 and the readiness loop starts
TimedCreatesDone ==
    /\ tPc = "create"
    /\ tI > tN
    /\ tLoopStart' = tClock
    /\ tI' = 1
    /\ tPc' = "wait"
    /\ UNCHANGED <<tClock, tN, tTries, tDelay, tStart, tWStart, tDeadline, tTotal, tErr, tRetries,
                   tReadyAt, tFetchAt, tPolled, tObserved, tObjects>>
    /\ UNCHANGED <<mainVars, httpVars, saveVars, startVars, deriveVars, treeVars>>

\* one call of create_cluster_custom_object inside retry_with_backoff: a
\* retryable error before the 6th attempt is followed by time.sleep(delay), a
\* 409 is passed over by create_org_and_projects, any other error is raised
TimedCreate ==
    /\ tPc = "create"
    /\ tI <= tN
    /\ \E e \in TimedCreateAnswers :
         IF e # NoErr /\ Retried(e, tTries)
            THEN /\ tClock' = tClock + CreateLatency + tDelay
                 /\ tDelay' = NextDelay(tDelay)
                 /\ tTries' = tTries + 1
                 /\ tRetries' = tRetries + 1
                 /\ UNCHANGED <<tI, tPc, tErr>>
            ELSE /\ tClock' = tClock + CreateLatency
                 /\ tTries' = 1
                 /\ tDelay' = InitialDelay
                 /\ tRetries' = tRetries
                 /\ IF e = NoErr \/ Tolerated409(e)
                       THEN tI' = tI + 1 /\ tPc' = tPc /\ tErr' = tErr
                       ELSE tI' = tI /\ tPc' = "raised" /\ tErr' = <<"ApiException">>
    /\ UNCHANGED <<tN, tStart, tWStart, tDeadline, tTotal, tLoopStart, tReadyAt, tFetchAt,
                   tPolled, tObserved, tObjects>>
    /\ UNCHANGED <<mainVars, httpVars, saveVars, startVars, deriveVars, treeVars>>

\* for pname in project_names: wait_condition_ready(..., pname, timeout_s=900)
\* starts: start = time.time(); deadline = start + timeout_s
TimedWaitStart ==
    /\ tPc = "wait"
    /\ tI <= tN
    /\ tWStart' = tClock
    /\ tDeadline' = Deadline(tClock, ProjectTimeout)
    /\ tPc' = "poll"
    /\ UNCHANGED <<tClock, tN, tI, tTries, tDelay, tStart, tTotal, tErr, tRetries, tLoopStart,
                   tReadyAt, tFetchAt, tPolled, tObserved, tObjects>>
    /\ UNCHANGED <<mainVars, httpVars, saveVars, startVars, deriveVars, treeVars>>

\* one round of while time.time() < deadline: the fetch, which may raise;
\* return when the condition Ready is True, else time.sleep(2)
TimedPoll ==
    /\ tPc = "poll"
    /\ tClock < tDeadline
    /\ tFetchAt' = tClock
    /\ tPolled' = tPolled \cup {tI}
    /\ \E latency \in {FastFetch, SlowFetch} :
         \/ /\ tClock' = tClock + latency
            /\ tObserved' = tObserved \cup {tI}
            /\ tReadyAt' = tClock'
            /\ tI' = tI + 1
            /\ tPc' = "wait"
            /\ tErr' = tErr
         \/ /\ tClock' = tClock + latency + PollInterval
            /\ tPc' = "poll"
            /\ UNCHANGED <<tObserved, tReadyAt, tI, tErr>>
         \/ /\ tClock' = tClock + latency
            /\ tPc' = "raised"
            /\ tErr' = <<"ApiException">>
            /\ UNCHANGED <<tObserved, tReadyAt, tI>>
    /\ UNCHANGED <<tN, tTries, tDelay, tStart, tWStart, tDeadline, tTotal, tRetries, tLoopStart,
                   tObjects>>
    /\ UNCHANGED <<mainVars, httpVars, saveVars, startVars, deriveVars, treeVars>>

\* the while condition fails: raise TimeoutError(...)
TimedTimeout ==
    /\ tPc = "poll"
    /\ ~(tClock < tDeadline)
    /\ tErr' = TimedOut(ProjectName(tI))
    /\ tPc' = "raised"
    /\ UNCHANGED <<tClock, tN, tI, tTries, tDelay, tStart, tWStart, tDeadline, tTotal, tRetries,
                   tLoopStart, tReadyAt, tFetchAt, tPolled, tObserved, tObjects>>
    /\ UNCHANGED <<mainVars, httpVars, saveVars, startVars, deriveVars, treeVars>>

\* the readiness loop is over: end = time.time(); total_seconds = end - start; return
TimedReturn ==
    /\ tPc = "wait"
    /\ tI > tN
    /\ tTotal' = Elapsed(tStart, tClock)
    /\ tPc' = "returned"
    /\ UNCHANGED <<tClock, tN, tI, tTries, tDelay, tStart, tWStart, tDeadline, tErr, tRetries,
                   tLoopStart, tReadyAt, tFetchAt, tPolled, tObserved, tObjects>>
    /\ UNCHANGED <<mainVars, httpVars, saveVars, startVars, deriveVars, treeVars>>

\* main goes on after create_org_and_projects returned, to the stages that
\* end with create_objects_in_projects
TimedMainGoesOn ==
    /\ tPc = "returned"
    /\ ~tObjects
    /\ tObjects' = TRUE
    /\ UNCHANGED <<tPc, tClock, tN, tI, tTries, tDelay, tStart, tWStart, tDeadline, tTotal, tErr,
                   tRetries, tLoopStart, tReadyAt, tFetchAt, tPolled, tObserved>>
    /\ UNCHANGED <<mainVars, httpVars, saveVars, startVars, deriveVars, treeVars>>

NextTimed ==
    \/ TimedCreatesDone
    \/ TimedCreate
    \/ TimedWaitStart
    \/ TimedPoll
    \/ TimedTimeout
    \/ TimedReturn
    \/ TimedMainGoesOn

SpecTimed == InitTimed /\ [][NextTimed]_vars

\* C27: a project is fetched only after every project before it was seen
\* Ready; every fetch of a project is issued less than 900 seconds after the
\* wait for that project started, and the wait gives up only once 900 seconds
\* have passed since then; the TimeoutError names the project waited for, no
\* project after it has been fetched, and main does not go on
C27_PerProjectDeadline ==
    /\ \A p \in tPolled : \A q \in 1..(p - 1) : q \in tObserved
    /\ tPc \in {"poll", "raised"} /\ tFetchAt # -1 /\ tI \in tPolled => tFetchAt < tWStart + 900
    /\ (tPc = "raised" /\ tErr # <<"ApiException">>) =>
          /\ tErr = <<"Timed out waiting for ", "projects", "/">> \o ProjectName(tI) \o <<" Ready">>
          /\ tClock >= tWStart + 900
          /\ tI \notin tObserved
          /\ \A p \in tPolled : p <= tI
          /\ ~tObjects
          /\ tTotal = -1
    /\ tObjects => tObserved = 1..tN

C27_Witness ==
    /\ tPc = "raised"
    /\ tI = 2
    /\ tErr = TimedOut(ProjectName(2))
    /\ tWStart > tLoopStart
    /\ tClock > tLoopStart + 900

\* C28 as stated: the duration returned is the clock when the last project was
\* seen Ready minus the clock when the readiness loop started
C28_DurationOfWaitPhaseOnly ==
    tPc = "returned" => tTotal = (IF tN = 0 THEN 0 ELSE tReadyAt - tLoopStart)

\* C28: the duration returned is the clock at the return of the last wait minus
\* the clock Epoch at which the create loop started: the time of the readiness
\* loop plus the time of the project creates and of their retry sleeps
C28_DurationFromCreateStart ==
    tPc = "returned" =>
        /\ tN = 0 => tTotal = 0
        /\ tN > 0 => tTotal = (tReadyAt - tLoopStart) + (tLoopStart - Epoch)
        /\ tLoopStart - Epoch >= tN * CreateLatency

C28_Witness ==
    /\ tPc = "returned"
    /\ tN = 2
    /\ tRetries = 2
    /\ tTotal > tReadyAt - tLoopStart

----------------------------------------------------------------------------
(* build_scoped_kubeconfig, called by the workers of create_objects_in_projects *)
(* on the one base_cfg. Dicts are objects on a heap, so that two dicts can     *)
(* share an entry.                                                             *)

MaxClusters   == 1     \* the most entries of "clusters" (and of "contexts") in base_cfg
DeriveWorkers == 2     \* the work_project calls that derive a kubeconfig at the same time

\* the dict at the top of a kubeconfig, and an entry of "clusters" or "contexts"
\* with its nested dict: server is the text of cluster.server, ref of
\* context.cluster; a text is the sequence of its pieces, <<>> the empty text
TopDict(clusters, contexts, current) ==
    [name |-> <<>>, server |-> <<>>, ref |-> <<>>, clusters |-> clusters, contexts |-> contexts,
     current |-> current]

Entry(name, server, ref) ==
    [name |-> name, server |-> server, ref |-> ref, clusters |-> <<>>, contexts |-> <<>>,
     current |-> <<>>]

\* the texts tried for cluster.server, as sequences of pieces
Servers == {<<"https://milo">>, <<"https://milo", "/", "/">>}

\* str.rstrip("/")
RECURSIVE RStrip(_)
RStrip(t) == IF t # <<>> /\ t[Len(t)] = "/" THEN RStrip(SubSeq(t, 1, Len(t) - 1)) ELSE t

\* scope_path and new_name of work_project(pname)
ScopePath(w) == <<"/apis/resourcemanager.miloapis.com/v1alpha1/projects/">> \o ProjectName(w)
                    \o <<"/control-plane">>

NewName(w) == <<"project-">> \o ProjectName(w)

\* the value of the kubeconfig at address a: what comparing it with == compares
ValueAt(h, a) ==
    [clusters |-> [j \in 1..Len(h[a].clusters) |->
                      [name |-> h[h[a].clusters[j]].name, server |-> h[h[a].clusters[j]].server]],
     contexts |-> [j \in 1..Len(h[a].contexts) |->
                      [name |-> h[h[a].contexts[j]].name, cluster |-> h[h[a].contexts[j]].ref]],
     current |-> h[a].current]

ShallowCopy(h, a) == [heap |-> Append(h, h[a]), cfg |-> Len(h) + 1]

\* yaml.safe_load(yaml.safe_dump(base_cfg)): new dicts and lists all the way down
DeepCopy(h, a) ==
    LET nc == Len(h[a].clusters)
        nx == Len(h[a].contexts)
        top == TopDict([j \in 1..nc |-> Len(h) + j], [j \in 1..nx |-> Len(h) + nc + j],
                       h[a].current)
    IN  [heap |-> h \o [j \in 1..nc |-> h[h[a].clusters[j]]]
                    \o [j \in 1..nx |-> h[h[a].contexts[j]]] \o <<top>>,
         cfg |-> Len(h) + nc + nx + 1]

\* base_cfg as load_kubeconfig_dict returned it; the workers have not started
InitDerive ==
    /\ \E nc \in 0..MaxClusters, current \in {<<>>, <<"milo">>} :
         \E nx \in {0, nc}, servers \in [1..nc -> Servers] :
            /\ dHeap = [j \in 1..nc |-> Entry(<<"milo">>, servers[j], <<>>)]
                         \o [j \in 1..nx |-> Entry(<<"milo">>, <<>>, <<"milo">>)]
                         \o <<TopDict([j \in 1..nc |-> j], [j \in 1..nx |-> nc + j], current)>>
            /\ dBase = nc + nx + 1
    /\ dPc = [w \in 1..DeriveWorkers |-> "start"]
    /\ dCfg = [w \in 1..DeriveWorkers |-> 0]
    /\ dJ = [w \in 1..DeriveWorkers |-> 0]
    /\ dBefore = ValueAt(dHeap, dBase)
    /\ dReturned = [w \in 1..DeriveWorkers |-> <<>>]
    /\ dChanged = {}
    /\ MainIdle
    /\ TreeIdle
    /\ HttpIdle
    /\ SaveIdle
    /\ StartIdle
    /\ TimedIdle

\* cfg = yaml.safe_load(yaml.safe_dump(base_cfg))
DeriveCopy(w) ==
    /\ dPc[w] = "start"
    /\ dHeap' = DeepCopy(dHeap, dBase).heap
    /\ dCfg' = [dCfg EXCEPT ![w] = DeepCopy(dHeap, dBase).cfg]
    /\ dJ' = [dJ EXCEPT ![w] = 1]
    /\ dPc' = [dPc EXCEPT ![w] = "clusters"]
    /\ UNCHANGED <<dBase, dBefore, dReturned, dChanged>>
    /\ UNCHANGED <<mainVars, httpVars, saveVars, startVars, timedVars, treeVars>>

\* for c in cfg.get("clusters", []): one round, or the end of the loop
DeriveCluster(w) ==
    /\ dPc[w] = "clusters"
    /\ LET entries == dHeap[dCfg[w]].clusters
       IN  IF dJ[w] <= Len(entries)
              THEN /\ dHeap' = [dHeap EXCEPT ![entries[dJ[w]]] =
                                   [@ EXCEPT !.name = NewName(w),
                                             !.server = RStrip(@) \o ScopePath(w)]]
                   /\ dJ' = [dJ EXCEPT ![w] = @ + 1]
                   /\ dPc' = dPc
              ELSE /\ dPc' = [dPc EXCEPT ![w] = "contexts"]
                   /\ dJ' = [dJ EXCEPT ![w] = 1]
                   /\ dHeap' = dHeap
    /\ UNCHANGED <<dBase, dCfg, dBefore, dReturned, dChanged>>
    /\ UNCHANGED <<mainVars, httpVars, saveVars, startVars, timedVars, treeVars>>

\* if cfg.get("contexts"): for ctx in cfg["contexts"]: one round, or the end
DeriveContext(w) ==
    /\ dPc[w] = "contexts"
    /\ LET entries == dHeap[dCfg[w]].contexts
       IN  IF dJ[w] <= Len(entries)
              THEN /\ dHeap' = [dHeap EXCEPT ![entries[dJ[w]]] =
                                   [@ EXCEPT !.name = NewName(w), !.ref = NewName(w)]]
                   /\ dJ' = [dJ EXCEPT ![w] = @ + 1]
                   /\ dPc' = dPc
              ELSE /\ dPc' = [dPc EXCEPT ![w] = "current"]
                   /\ UNCHANGED <<dJ, dHeap>>
    /\ UNCHANGED <<dBase, dCfg, dBefore, dReturned, dChanged>>
    /\ UNCHANGED <<mainVars, httpVars, saveVars, startVars, timedVars, treeVars>>

\* if cfg.get("current-context"): cfg["current-context"] = new_name; return cfg
DeriveReturn(w) ==
    /\ dPc[w] = "current"
    /\ dHeap' = IF dHeap[dCfg[w]].current # <<>>
                    THEN [dHeap EXCEPT ![dCfg[w]].current = NewName(w)]
                    ELSE dHeap
    /\ dReturned' = [dReturned EXCEPT ![w] = ValueAt(dHeap', dCfg[w])]
    /\ dPc' = [dPc EXCEPT ![w] = "returned"]
    /\ UNCHANGED <<dBase, dCfg, dJ, dBefore, dChanged>>
    /\ UNCHANGED <<mainVars, httpVars, saveVars, startVars, timedVars, treeVars>>

\* the caller changes the dict it got: a cluster entry, the list of the
\* contexts, or current-context
DeriveChange(w) ==
    /\ dPc[w] = "returned"
    /\ w \notin dChanged
    /\ dChanged' = dChanged \cup {w}
    /\ \/ \E j \in 1..Len(dHeap[dCfg[w]].clusters) :
            dHeap' = [dHeap EXCEPT ![dHeap[dCfg[w]].clusters[j]].server = <<"https://elsewhere">>]
       \/ dHeap' = [dHeap EXCEPT ![dCfg[w]].contexts = <<>>]
       \/ dHeap' = [dHeap EXCEPT ![dCfg[w]].current = <<"elsewhere">>]
    /\ UNCHANGED <<dBase, dPc, dCfg, dJ, dBefore, dReturned>>
    /\ UNCHANGED <<mainVars, httpVars, saveVars, startVars, timedVars, treeVars>>

NextDerive ==
    \E w \in 1..DeriveWorkers :
        \/ DeriveCopy(w)
        \/ DeriveCluster(w)
        \/ DeriveContext(w)
        \/ DeriveReturn(w)
        \/ DeriveChange(w)

SpecDerive == InitDerive /\ [][NextDerive]_vars

\* C21: whatever the workers have done so far, base_cfg has the value it had
\* before the first call, and a dict a worker returned has the value it was
\* returned with unless its own caller changed it
C21_BaseNeverMutated ==
    /\ ValueAt(dHeap, dBase) = dBefore
    /\ \A w \in 1..DeriveWorkers :
          (dPc[w] = "returned" /\ w \notin dChanged) => ValueAt(dHeap, dCfg[w]) = dReturned[w]
    /\ \A w \in 1..DeriveWorkers :
          dPc[w] = "returned" =>
              \A j \in 1..Len(dReturned[w].clusters) :
                  /\ dReturned[w].clusters[j].name = <<"project-">> \o ProjectName(w)
                  /\ dReturned[w].clusters[j].server =
                        RStrip(dBefore.clusters[j].server) \o ScopePath(w)

C21_Witness ==
    /\ dPc = [w \in 1..DeriveWorkers |-> "returned"]
    /\ dChanged = {1}
    /\ Len(dBefore.clusters) = 1
    /\ dBefore.clusters[1].server = <<"https://milo", "/", "/">>
    /\ dBefore.current = <<"milo">>
    /\ ValueAt(dHeap, dCfg[1]).clusters[1].server = <<"https://elsewhere">>

----------------------------------------------------------------------------
(* Properties of retry_with_backoff on an error that is no ApiException *)

\* C34: when fn raised an error that is no ApiException, retry_with_backoff
\* has raised that very error, fn has been called once in that attempt and
\* once in each attempt before it, and no sleep has followed the failing call
C34_OtherErrorNotRetried ==
    rFnErr.kind = "other" =>
        /\ rPc = "raised"
        /\ rRaised = rFnErr
        /\ rFnErr.att = attempt
        /\ rCalls = attempt
        /\ Len(rSleeps) = attempt - 1

C34_Witness ==
    /\ rPc = "raised"
    /\ rRaised.kind = "other"
    /\ attempt = 3
    /\ rSleeps = <<1, 2>>
    /\ cpPc = "raised"

----------------------------------------------------------------------------
(* Properties of the create calls of the object stage *)

\* the states of a create task after which it is never touched again
Over == {"done", "failed", "cancelled"}

\* one step of a create task: it is started from the queue at most once and
\* what it ended as stays
OneCall(was, is) ==
    /\ was = "inflight" => is \in {"inflight", "done", "failed"}
    /\ was \in Over => is = was

\* some create task of the stage has raised
SomeCreateRaised ==
    \E kind \in Kinds : \E p \in DOMAIN projSt : \E k \in DOMAIN objSt[kind][p] :
        objSt[kind][p][k] = "failed"

\* what an error of a create leaves behind
CreateErrorsFatal ==
    /\ fatalAt = "object" => pc \in {"objects", "raised"} /\ SomeCreateRaised
    /\ transientAt \cap Kinds # {} => fatalAt # "none" /\ pc \in {"objects", "raised"}
    /\ SomeCreateRaised => fatalAt # "none"
    /\ (pc \in {"after_secrets", "save_results", "complete"} /\ run_objects_phase) =>
          \A kind \in Kinds : Issued(kind) = nProjects * ObjCount(kind)

\* the create tasks over one step: none is issued again, the task answered 409
\* has returned and the stage goes on, the task answered another error has raised
CreateStep ==
    /\ \A kind \in Kinds : \A p \in DOMAIN projSt : \A k \in DOMAIN objSt[kind][p] :
          OneCall(objSt[kind][p][k], objSt'[kind][p][k])
    /\ (pc = "objects" /\ runFaults' > runFaults /\ fatalAt' = "none") =>
          /\ pc' = "objects"
          /\ \A kind \in Kinds : \A p \in DOMAIN projSt : \A k \in DOMAIN objSt[kind][p] :
                objSt'[kind][p][k] # objSt[kind][p][k] => objSt'[kind][p][k] = "done"
    /\ (pc = "objects" /\ fatalAt = "none" /\ fatalAt' = "object") =>
          \A kind \in Kinds : \A p \in DOMAIN projSt : \A k \in DOMAIN objSt[kind][p] :
              objSt'[kind][p][k] # objSt[kind][p][k] => objSt'[kind][p][k] = "failed"

\* C31: every Secret and ConfigMap create is issued at most once and never
\* again, exactly once for every project and index when the object stage
\* returns; a 409 answer leaves the task returned and the stage going, and any
\* other error of a create, 429 and 500 included, is fatal: the task has raised,
\* the stage never returns and the run ends with the error.
C31_ObjectCreateOnce == []CreateErrorsFatal /\ [][CreateStep]_vars

\* a 429 or 500 of a ConfigMap create ended the run after a Secret was created
C31_Witness ==
    /\ pc = "raised"
    /\ fatalAt = "object"
    /\ "configmap" \in transientAt
    /\ \E p \in DOMAIN projSt : \E k \in DOMAIN objSt["configmap"][p] :
          objSt["configmap"][p][k] = "failed"
    /\ \E p \in DOMAIN projSt : \E k \in DOMAIN objSt["secret"][p] :
          objSt["secret"][p][k] = "done"

----------------------------------------------------------------------------
(* A run of main and the cleanup of its tree, on a control plane that may
   still hold the tree of an earlier run *)

TreeProjects == 2   \* the largest NUM_PROJECTS tried
TreeObjects  == 1   \* the largest NUM_SECRETS_PER_PROJECT and NUM_CONFIGMAPS_PER_PROJECT tried
TreeFaults   == 1   \* the most calls of the run and the cleanup answered with an error

\* test_id = uuid.uuid4().hex[:8]: the ids drawn, by this run and by an earlier
\* one (which drew another id or, by chance, the same)
TestIds == {"0a1b2c3d", "4e5f6a7b"}

ThisTestId == "0a1b2c3d"

\* org_name of a run with test id t: f"perf-{test_id}" with ORG_NAME unset, or
\* the ORG_NAME the runs share
OrgNames(t) == {OrgName("unset", t), <<"shared">>}

\* the organization names in name order
OrgOrder == <<OrgName("unset", "0a1b2c3d"), OrgName("unset", "4e5f6a7b"), <<"shared">>>>

\* pname = f"{org_name}-p-{i:03d}"
TreeName(org, j) == [org |-> org, i |-> j]

\* labels = {"app": "milo-perf", "test-id": test_id}
Labels(t) == [app |-> "milo-perf", test_id |-> t]

\* the labels of a resource the harness did not create
NoLabels == [app |-> "", test_id |-> ""]

\* a selector on the app label alone
SelectedByApp(l, t) == l.app = "milo-perf"

\* label_selector=f"app=milo-perf,test-id={test_id}"
Selected(l, t) == l.app = "milo-perf" /\ l.test_id = t

\* the place of a project name in name order
TreeRank(x) ==
    (CHOOSE r \in DOMAIN OrgOrder : OrgOrder[r] = x.org) * (TreeProjects + 1) + x.i

\* the items of a project list, in name order
ListOf(S) ==
    LET ranks == SortedSeq({TreeRank(x) : x \in S})
    IN  [j \in DOMAIN ranks |-> CHOOSE x \in S : TreeRank(x) = ranks[j]]

\* a Project, Secret or ConfigMap as the control plane holds it
ProjectRec(x, l) == [name |-> x, labels |-> l]

ObjectRec(x, kind, j, l) == [project |-> x, kind |-> kind, name |-> j, labels |-> l]

Exists(x) == \E r \in trProjects : r.name = x

ObjectExists(x, kind, j) ==
    \E o \in trObjects : o.project = x /\ o.kind = kind /\ o.name = j

\* the record of a delete call: its target and the labels the target carries
Del(what, org, j, obj, l) == [what |-> what, org |-> org, i |-> j, obj |-> obj, labels |-> l]

\* a call ends with an error (for a create through retry_with_backoff: after its retries)
TreeErrors ==
    IF trFaults < TreeFaults THEN {ApiException(500, NoneBody, 0), OtherException(0)} ELSE {}

\* what the steps below leave alone
TreeFrame ==
    /\ UNCHANGED <<trId, trOrg, trN, trS>>
    /\ UNCHANGED <<mainVars, httpVars, saveVars, startVars, timedVars, deriveVars>>

\* main has drawn test_id and read ORG_NAME, NUM_PROJECTS and the object counts.
\* The control plane is empty, or holds what an earlier run with the same
\* object counts that was never cleaned up left: its organization, its projects
\* and their objects, all labelled with that run's test id, and possibly a
\* ConfigMap put into each project by somebody else
InitTree ==
    /\ trId = ThisTestId
    /\ trOrg \in OrgNames(trId)
    /\ trN \in 1..TreeProjects
    /\ trS \in 0..TreeObjects
    /\ \E earlier \in BOOLEAN, t0 \in TestIds, n0 \in 1..TreeProjects, user \in BOOLEAN :
       \E org0 \in OrgNames(t0) :
         LET names0 == IF earlier THEN {TreeName(org0, j) : j \in 1..n0} ELSE {}
         IN  /\ trOrgs = IF earlier THEN {org0} ELSE {}
             /\ trProjects = {ProjectRec(x, Labels(t0)) : x \in names0}
             /\ trObjects =
                  {ObjectRec(x, kind, j, Labels(t0)) : x \in names0, kind \in Kinds, j \in 1..trS}
                  \cup (IF user THEN {ObjectRec(x, "configmap", 0, NoLabels) : x \in names0} ELSE {})
    /\ trPc = "create_org"
    /\ trIdx = 0
    /\ trKind = ""
    /\ trNames = <<>>
    /\ trItems = <<>>
    /\ trFaults = 0
    /\ trFailedAt = "none"
    /\ trConflict = {}
    /\ trWaited = {}
    /\ trBefore = {}
    /\ trListed = {}
    /\ trDeletes = <<>>
    /\ MainIdle
    /\ HttpIdle
    /\ SaveIdle
    /\ StartIdle
    /\ TimedIdle
    /\ DeriveIdle

\* retry_with_backoff("create Organization", ...): created, or 409 passed over,
\* or the error leaves main
TreeCreateOrg ==
    /\ trPc = "create_org"
    /\ \/ /\ trOrgs' = trOrgs \cup {trOrg}
          /\ trPc' = "create_project"
          /\ trIdx' = 1
          /\ UNCHANGED <<trFaults, trFailedAt>>
       \/ \E e \in TreeErrors :
            /\ trFaults' = trFaults + 1
            /\ trPc' = "run_raised"
            /\ trFailedAt' = "create_org"
            /\ UNCHANGED <<trOrgs, trIdx>>
    /\ UNCHANGED <<trKind, trNames, trProjects, trObjects, trItems, trConflict, trWaited,
                   trBefore, trListed, trDeletes>>
    /\ TreeFrame

\* for i in range(1, num_projects + 1): the name is appended, the create with
\* the run's labels makes the project, or answers 409 for a project of that
\* name that exists (which stays as it is), or its error leaves main
TreeCreateProject ==
    /\ trPc = "create_project"
    /\ LET x == TreeName(trOrg, trIdx)
       IN  /\ trNames' = Append(trNames, x)
           /\ \/ /\ ~Exists(x)
                 /\ trProjects' = trProjects \cup {ProjectRec(x, Labels(trId))}
                 /\ trPc' = IF trIdx < trN THEN "create_project" ELSE "wait"
                 /\ trIdx' = IF trIdx < trN THEN trIdx + 1 ELSE 1
                 /\ UNCHANGED <<trConflict, trFaults, trFailedAt>>
              \/ /\ Exists(x)
                 /\ trConflict' = trConflict \cup {x}
                 /\ trPc' = IF trIdx < trN THEN "create_project" ELSE "wait"
                 /\ trIdx' = IF trIdx < trN THEN trIdx + 1 ELSE 1
                 /\ UNCHANGED <<trProjects, trFaults, trFailedAt>>
              \/ \E e \in TreeErrors :
                   /\ trFaults' = trFaults + 1
                   /\ trPc' = "run_raised"
                   /\ trFailedAt' = "create_project"
                   /\ UNCHANGED <<trProjects, trConflict, trIdx>>
    /\ UNCHANGED <<trKind, trOrgs, trObjects, trItems, trWaited, trBefore, trListed, trDeletes>>
    /\ TreeFrame

\* for pname in project_names: wait_condition_ready(...) returns for a project
\* that is Ready, or raises (an error of the fetch, the timeout)
TreeWait ==
    /\ trPc = "wait"
    /\ \/ /\ Exists(trNames[trIdx])
          /\ trWaited' = trWaited \cup {trNames[trIdx]}
          /\ trPc' = IF trIdx < Len(trNames) THEN "wait" ELSE "objects"
          /\ trIdx' = IF trIdx < Len(trNames) THEN trIdx + 1 ELSE 1
          /\ trKind' = IF trIdx < Len(trNames) THEN trKind ELSE "secret"
          /\ UNCHANGED <<trFaults, trFailedAt>>
       \/ \E e \in TreeErrors :
            /\ trFaults' = trFaults + 1
            /\ trPc' = "run_raised"
            /\ trFailedAt' = "wait"
            /\ UNCHANGED <<trWaited, trIdx, trKind>>
    /\ UNCHANGED <<trNames, trOrgs, trProjects, trObjects, trItems, trConflict, trBefore,
                   trListed, trDeletes>>
    /\ TreeFrame

\* work_project(pname), one pool: create_secret / create_configmap for
\* 1..num with the run's labels; a name that exists answers 409 and stays as it
\* is; another error leaves main (project_concurrency <= 1: one project after
\* the other)
TreeCreateObjects ==
    /\ trPc = "objects"
    /\ LET x == trNames[trIdx]
           last == trIdx = Len(trNames) /\ trKind = "configmap"
       IN  \/ /\ trObjects' = trObjects \cup
                     {ObjectRec(x, trKind, j, Labels(trId)) :
                          j \in {k \in 1..trS : ~ObjectExists(x, trKind, k)}}
              /\ trPc' = IF last THEN "run_done" ELSE "objects"
              /\ trIdx' = IF trKind = "configmap" /\ ~last THEN trIdx + 1 ELSE trIdx
              /\ trKind' = IF trKind = "secret" THEN "configmap"
                           ELSE IF last THEN trKind ELSE "secret"
              /\ UNCHANGED <<trFaults, trFailedAt>>
           \/ \E e \in TreeErrors :
                /\ trFaults' = trFaults + 1
                /\ trPc' = "run_raised"
                /\ trFailedAt' = "objects"
                /\ UNCHANGED <<trObjects, trIdx, trKind>>
    /\ UNCHANGED <<trNames, trOrgs, trProjects, trItems, trConflict, trWaited, trBefore,
                   trListed, trDeletes>>
    /\ TreeFrame

\* main is started with RUN_MODE=cleanup, TEST_ID and ORG_NAME of the run
TreeCleanupStart ==
    /\ trPc \in {"run_done", "run_raised"}
    /\ trPc' = "list_projects"
    /\ trBefore' = trProjects
    /\ trFailedAt' = "none"
    /\ UNCHANGED <<trIdx, trKind, trNames, trOrgs, trProjects, trObjects, trItems, trFaults,
                   trConflict, trWaited, trListed, trDeletes>>
    /\ TreeFrame

\* proj_list = coapi.list_cluster_custom_object(..., label_selector=...); an
\* error of the list leaves cleanup_resources and main
TreeListProjects ==
    /\ trPc = "list_projects"
    /\ \/ LET items == ListOf({r.name : r \in {q \in trProjects : Selected(q.labels, trId)}})
          IN  /\ trItems' = items
              /\ trIdx' = 1
              /\ trKind' = "secret"
              /\ trPc' = IF items = <<>> THEN "delete_org" ELSE "sweep"
              /\ UNCHANGED <<trFaults, trFailedAt>>
       \/ \E e \in TreeErrors :
            /\ trFaults' = trFaults + 1
            /\ trPc' = "clean_failed"
            /\ trFailedAt' = "list_projects"
            /\ UNCHANGED <<trItems, trIdx, trKind>>
    /\ UNCHANGED <<trNames, trOrgs, trProjects, trObjects, trConflict, trWaited, trBefore,
                   trListed, trDeletes>>
    /\ TreeFrame

\* the position after the Secrets or ConfigMaps of a project: an ApiException
\* is passed over by the inner handler, any other exception by the outer one
AfterSweep(kind, e) ==
    IF kind = "secret" /\ e.kind # "other" THEN "sweep" ELSE "delete_project"

\* sl = v1.list_namespaced_secret(label_selector=label_sel) and a delete for
\* each item (likewise the ConfigMaps): the list fails, or the first m deletes
\* succeed and either the items are through or the next delete fails
TreeSweep ==
    /\ trPc = "sweep"
    /\ LET x == trItems[trIdx]
           found == {o \in trObjects : o.project = x /\ o.kind = trKind
                                        /\ Selected(o.labels, trId)}
           order == SortedSeq({o.name : o \in found})
           item(j) == CHOOSE o \in found : o.name = order[j]
           gone(m) == {item(j) : j \in 1..m}
           calls(m) == [j \in 1..m |-> Del(trKind, x.org, x.i, order[j], item(j).labels)]
       IN  \/ \E e \in TreeErrors :
                /\ trFaults' = trFaults + 1
                /\ trPc' = AfterSweep(trKind, e)
                /\ UNCHANGED <<trObjects, trListed, trDeletes>>
           \/ /\ trListed' = trListed \cup found
              /\ trObjects' = trObjects \ found
              /\ trDeletes' = trDeletes \o calls(Len(order))
              /\ trPc' = AfterSweep(trKind, NoErr)
              /\ UNCHANGED trFaults
           \/ \E m \in 0..(Len(order) - 1), e \in TreeErrors :
                /\ trListed' = trListed \cup found
                /\ trObjects' = trObjects \ gone(m)
                /\ trDeletes' = trDeletes \o calls(m + 1)
                /\ trFaults' = trFaults + 1
                /\ trPc' = AfterSweep(trKind, e)
    /\ trKind' = IF trKind = "secret" THEN "configmap" ELSE trKind
    /\ UNCHANGED <<trIdx, trNames, trOrgs, trProjects, trItems, trFailedAt, trConflict,
                   trWaited, trBefore>>
    /\ TreeFrame

\* org_coapi.delete_cluster_custom_object(plural="projects", name=pname): the
\* project goes with what it holds; an error other than 404 and 409 leaves
\* cleanup_resources and main
TreeDeleteProject ==
    /\ trPc = "delete_project"
    /\ LET x == trItems[trIdx]
           held == {r \in trProjects : r.name = x}
           l == IF held = {} THEN NoLabels ELSE (CHOOSE r \in held : TRUE).labels
       IN  /\ trDeletes' = Append(trDeletes, Del("project", x.org, x.i, 0, l))
           /\ \/ /\ trProjects' = trProjects \ held
                 /\ trObjects' = {o \in trObjects : o.project # x}
                 /\ trPc' = IF trIdx < Len(trItems) THEN "sweep" ELSE "delete_org"
                 /\ trIdx' = trIdx + 1
                 /\ trKind' = "secret"
                 /\ UNCHANGED <<trFaults, trFailedAt>>
              \/ \E e \in TreeErrors :
                   /\ trFaults' = trFaults + 1
                   /\ trPc' = "clean_failed"
                   /\ trFailedAt' = "delete_project"
                   /\ UNCHANGED <<trProjects, trObjects, trIdx, trKind>>
    /\ UNCHANGED <<trNames, trOrgs, trItems, trConflict, trWaited, trBefore, trListed>>
    /\ TreeFrame

\* coapi.delete_cluster_custom_object(plural="organizations", name=org_name)
TreeDeleteOrg ==
    /\ trPc = "delete_org"
    /\ trDeletes' = Append(trDeletes, Del("org", trOrg, 0, 0, NoLabels))
    /\ \/ /\ trOrgs' = trOrgs \ {trOrg}
          /\ trPc' = "delete_checkpoint"
          /\ UNCHANGED <<trFaults, trFailedAt>>
       \/ \E e \in TreeErrors :
            /\ trFaults' = trFaults + 1
            /\ trPc' = "clean_failed"
            /\ trFailedAt' = "delete_org"
            /\ UNCHANGED trOrgs
    /\ UNCHANGED <<trIdx, trKind, trNames, trProjects, trObjects, trItems, trConflict,
                   trWaited, trBefore, trListed>>
    /\ TreeFrame

\* main: v1.delete_namespaced_config_map(name="perf-results", ...)
TreeDeleteCheckpoint ==
    /\ trPc = "delete_checkpoint"
    /\ trDeletes' = Append(trDeletes, Del("checkpoint", <<"perf-results">>, 0, 0, NoLabels))
    /\ \/ /\ trPc' = "clean_done"
          /\ UNCHANGED <<trFaults, trFailedAt>>
       \/ \E e \in TreeErrors :
            /\ trFaults' = trFaults + 1
            /\ trPc' = "clean_failed"
            /\ trFailedAt' = "delete_checkpoint"
    /\ UNCHANGED <<trIdx, trKind, trNames, trOrgs, trProjects, trObjects, trItems, trConflict,
                   trWaited, trBefore, trListed>>
    /\ TreeFrame

NextTree ==
    \/ TreeCreateOrg
    \/ TreeCreateProject
    \/ TreeWait
    \/ TreeCreateObjects
    \/ TreeCleanupStart
    \/ TreeListProjects
    \/ TreeSweep
    \/ TreeDeleteProject
    \/ TreeDeleteOrg
    \/ TreeDeleteCheckpoint

SpecTree == InitTree /\ [][NextTree]_vars

\* the projects proj_list returned
ItemsListed == {trItems[j] : j \in DOMAIN trItems}

\* C33: every delete the cleanup issues is for a project the label list
\* returned, which carries app=milo-perf and the given test id, for a Secret or
\* ConfigMap with these labels that a list inside such a project returned, for
\* the named organization or for the checkpoint record; a project with other
\* labels is still there afterwards; and when the project list fails no delete
\* has been issued.
C33_DeletesOnlyTheTree ==
    /\ \A j \in DOMAIN trDeletes :
         LET d == trDeletes[j]
         IN  /\ d.what \in {"project", "org", "checkpoint"} \cup Kinds
             /\ d.what = "project" =>
                   /\ d.labels = Labels(trId)
                   /\ TreeName(d.org, d.i) \in ItemsListed
             /\ d.what \in Kinds =>
                   /\ d.labels = Labels(trId)
                   /\ TreeName(d.org, d.i) \in ItemsListed
                   /\ ObjectRec(TreeName(d.org, d.i), d.what, d.obj, d.labels) \in trListed
             /\ d.what = "org" => d.org = trOrg
             /\ d.what = "checkpoint" => d.org = <<"perf-results">>
    /\ \A r \in trBefore : r.labels # Labels(trId) => r \in trProjects
    /\ \A o \in trObjects : o.labels # Labels(trId) => o \notin trListed
    /\ trFailedAt = "list_projects" => trDeletes = <<>>

\* a cleanup that completed deleted a project and a Secret of the run and left
\* the project of an earlier run, with another test id, where it was
C33_Witness ==
    /\ trPc = "clean_done"
    /\ \E j \in DOMAIN trDeletes : trDeletes[j].what = "project"
    /\ \E j \in DOMAIN trDeletes : trDeletes[j].what = "secret"
    /\ \E r \in trProjects : r.labels.app = "milo-perf" /\ r.labels.test_id # trId

\* C32: a cleanup that completed has issued a delete for every project the run
\* waited Ready for, the projects whose create answered 409 included.
C32_NoProjectLeftBehind ==
    trPc = "clean_done" =>
        \A x \in trWaited :
            \E j \in DOMAIN trDeletes :
                /\ trDeletes[j].what = "project"
                /\ trDeletes[j].org = x.org
                /\ trDeletes[j].i = x.i

====
